---- MODULE Spec2Model ----
(***************************************************************************)
(* Bedrock quota dashboards: the quota registry (lookup and validation),   *)
(* the build of the dashboard stack, and the consumption estimator whose   *)
(* formulas the dashboard hands to the metrics store.                      *)
(***************************************************************************)
EXTENDS Integers, Sequences, FiniteSets, Bags, TLC

VARIABLES
  probe,                    \* registry helper calls: inputs and recorded results
  pc, configs, thrown,      \* stack constructor: position, entry list, error raised
  constructs,               \* construct ids created so far, in creation order
  eventBridgeModels,        \* tuple list attached to the schedule rule target
  customResourceModels,     \* tuple list of the initial-fetch custom resource
  widgets,                  \* dashboard rows added so far
  currentFamily,            \* family of the last banner
  modelsWithMissingQuotas,  \* entries skipped by the widget loop
  idx,                      \* next entry of the widget loop
  entry,                    \* estimator: the dashboard entry whose series are read
  panel,                    \* estimator: the series the dashboard holds for the entry
  now,                      \* estimator: current one-minute bucket
  started,                  \* estimator: requests started so far
  inflight,                 \* estimator: requests started and not yet completed
  store,                    \* metrics store: per series and bucket, the samples' aggregates
  deployed,                 \* deployment: resources of the stack created so far
  clock,                    \* deployment: minutes since the deployment started
  nextFire,                 \* deployment: minute of the schedule rule's next firing
  invocations,              \* deployment: invocations of the fetcher, in order
  fetcher,                  \* fetcher: the refresh under way, or the last one
  points,                   \* fetcher: limit points published to the metrics store
  asked,                    \* fetcher: per query, the answers received in this refresh
  log,                      \* fetcher: the queries whose failure was reported so far
  outage,                   \* limits service: identifiers whose query fails now
  outages,                  \* limits service: failures begun so far
  pages,                    \* quota listing: the pages the limits service holds
  lpc,                      \* quota listing: position of getAllBedrockQuotas
  nextToken,                \* quota listing: the loop's nextToken
  allQuotas,                \* quota listing: the loop's allQuotas
  received                  \* quota listing: the pages answered so far, in order

registryVars == <<probe>>
buildVars == <<pc, configs, thrown, constructs, eventBridgeModels,
               customResourceModels, widgets, currentFamily,
               modelsWithMissingQuotas, idx>>
estimatorVars == <<entry, panel, now, started, inflight, store>>
deployVars == <<deployed, clock, nextFire, invocations>>
fetcherVars == <<fetcher, points, asked, log, outage, outages>>
listingVars == <<pages, lpc, nextToken, allQuotas, received>>
laterVars == <<deployVars, fetcherVars, listingVars>>
vars == <<registryVars, buildVars, estimatorVars, laterVars>>

----------------------------------------------------------------------------
(* JavaScript values *)

\* the undefined value of an optional string property
Undefined == "undefined"

\* truthiness of an optional string ('' and undefined are falsy)
TruthyStr(s) == s # Undefined /\ s # ""

\* type EndpointType
EndpointTypes == {"regional", "cross-region", "global-cross-region"}

\* interface QuotaCodes: an object with two optional codes
Pair(t, r) == [tag |-> "object", tokenQuotaCode |-> t, requestQuotaCode |-> r]

\* an endpoint property the descriptor does not define
NoProperty == [tag |-> "undefined", tokenQuotaCode |-> Undefined, requestQuotaCode |-> Undefined]

\* the null returned by a lookup
Null == [tag |-> "null", tokenQuotaCode |-> Undefined, requestQuotaCode |-> Undefined]

\* x || null on an endpoint property
OrNull(x) == IF x.tag = "object" THEN x ELSE Null

\* a model descriptor as createModelConfig returns it (the config object itself)
M(key, modelId, rate, supported, regional, crossRegion, globalCrossRegion) ==
  [tag |-> "object", key |-> key, modelId |-> modelId,
   outputTokenBurndownRate |-> rate, supportedEndpoints |-> supported,
   regional |-> regional, crossRegion |-> crossRegion,
   globalCrossRegion |-> globalCrossRegion]

\* BEDROCK_MODELS.X.Y for a key the active table does not have
UndefinedModel ==
  [tag |-> "undefined", key |-> Undefined, modelId |-> Undefined,
   outputTokenBurndownRate |-> 0, supportedEndpoints |-> <<>>,
   regional |-> NoProperty, crossRegion |-> NoProperty,
   globalCrossRegion |-> NoProperty]

Range(s) == {s[i] : i \in 1..Len(s)}

----------------------------------------------------------------------------
(* The region tables *)

BEDROCK_MODELS_US_WEST_2 ==
  <<
    M("NOVA_MICRO_V1", "amazon.nova-micro-v1:0", 1, <<"cross-region">>,
      NoProperty, Pair("L-DC7FF66C", "L-3F110E0F"), NoProperty),
    M("NOVA_LITE_V1", "amazon.nova-lite-v1:0", 1, <<"cross-region">>,
      NoProperty, Pair("L-7C42E72A", "L-89F8391A"), NoProperty),
    M("NOVA_PRO_V1", "amazon.nova-pro-v1:0", 1, <<"cross-region">>,
      NoProperty, Pair("L-C0326783", "L-ED46B8C5"), NoProperty),
    M("NOVA_PREMIER_V1", "amazon.nova-premier-v1:0", 1, <<"cross-region">>,
      NoProperty, Pair("L-AA7FE948", "L-9AD981E7"), NoProperty),
    M("NOVA_2_LITE_V1", "amazon.nova-2-lite-v1:0", 1, <<"cross-region", "global-cross-region">>,
      NoProperty, Pair("L-C6F5908D", "L-F06F1187"), Pair("L-71C69B70", "L-D5F39C2F")),
    M("CLAUDE_3_HAIKU", "anthropic.claude-3-haiku-20240307-v1:0", 1, <<"regional", "cross-region">>,
      Pair("L-8CE99163", "L-2DC80978"), Pair("L-DCADBC78", "L-616A3F5B"), NoProperty),
    M("CLAUDE_3_5_SONNET_20240620", "anthropic.claude-3-5-sonnet-20240620-v1:0", 1, <<"regional", "cross-region">>,
      Pair("L-A50569E5", "L-254CACF4"), Pair("L-479B647F", "L-F457545D"), NoProperty),
    M("CLAUDE_3_5_HAIKU", "anthropic.claude-3-5-haiku-20241022-v1:0", 1, <<"regional", "cross-region">>,
      Pair("L-7AB4ABDD", "L-C7438F8F"), Pair("L-4BF37C17", "L-252DF594"), NoProperty),
    M("CLAUDE_3_7_SONNET", "anthropic.claude-3-7-sonnet-20250219-v1:0", 5, <<"cross-region">>,
      NoProperty, Pair("L-6E888CC2", "L-3D8CC480"), NoProperty),
    M("CLAUDE_HAIKU_4_5", "anthropic.claude-haiku-4-5-20251001-v1:0", 5, <<"cross-region", "global-cross-region">>,
      NoProperty, Pair("L-58BE175A", "L-CCA5DF70"), Pair("L-9A11C666", "L-E5084BBA")),
    M("CLAUDE_SONNET_4", "anthropic.claude-sonnet-4-20250514-v1:0", 5, <<"cross-region", "global-cross-region">>,
      NoProperty, Pair("L-59759B4A", "L-559DCC33"), Pair("L-97E41E39", "L-C63AA5DA")),
    M("CLAUDE_SONNET_4_5", "anthropic.claude-sonnet-4-5-20250929-v1:0", 5, <<"cross-region", "global-cross-region">>,
      NoProperty, Pair("L-F4DDD3EB", "L-4A6BFAB1"), Pair("L-27C57EE8", "L-DB84CE56")),
    M("CLAUDE_OPUS_4", "anthropic.claude-opus-4-20250514-v1:0", 5, <<"cross-region">>,
      NoProperty, Pair("L-29C2B0A3", "L-C99C7EF6"), NoProperty),
    M("CLAUDE_OPUS_4_1", "anthropic.claude-opus-4-1-20250805-v1:0", 5, <<"cross-region">>,
      NoProperty, Pair("L-BD85BFCD", "L-7EC72A47"), NoProperty),
    M("CLAUDE_OPUS_4_5", "anthropic.claude-opus-4-5-20251101-v1:0", 5, <<"cross-region", "global-cross-region">>,
      NoProperty, Pair("L-7007E9C9", "L-27989F42"), Pair("L-3ABF6ACC", "L-58424D95"))
  >>

BEDROCK_MODELS_US_EAST_1 ==
  <<
    M("NOVA_MICRO_V1", "amazon.nova-micro-v1:0", 1, <<"regional", "cross-region">>,
      Pair("L-CFA4FA0D", "L-E118F160"), Pair("L-DC7FF66C", "L-3F110E0F"), NoProperty),
    M("NOVA_LITE_V1", "amazon.nova-lite-v1:0", 1, <<"regional", "cross-region">>,
      Pair("L-70423BF8", "L-E386A278"), Pair("L-7C42E72A", "L-89F8391A"), NoProperty),
    M("NOVA_PRO_V1", "amazon.nova-pro-v1:0", 1, <<"regional", "cross-region">>,
      Pair("L-CE33604C", "L-F2717A44"), Pair("L-C0326783", "L-ED46B8C5"), NoProperty),
    M("NOVA_PREMIER_V1", "amazon.nova-premier-v1:0", 1, <<"cross-region">>,
      NoProperty, Pair("L-AA7FE948", "L-9AD981E7"), NoProperty),
    M("NOVA_2_LITE_V1", "amazon.nova-2-lite-v1:0", 1, <<"cross-region", "global-cross-region">>,
      NoProperty, Pair("L-C6F5908D", "L-F06F1187"), Pair("L-71C69B70", "L-D5F39C2F")),
    M("NOVA_CANVAS_V1", "amazon.nova-canvas-v1:0", 1, <<"regional">>,
      Pair(Undefined, "L-3F26CE29"), NoProperty, NoProperty),
    M("CLAUDE_3_HAIKU", "anthropic.claude-3-haiku-20240307-v1:0", 1, <<"regional", "cross-region">>,
      Pair("L-8CE99163", "L-2DC80978"), Pair("L-DCADBC78", "L-616A3F5B"), NoProperty),
    M("CLAUDE_3_SONNET", "anthropic.claude-3-sonnet-20240229-v1:0", 1, <<"regional", "cross-region">>,
      Pair("L-4C35BB2A", "L-F406804E"), Pair("L-5DF13F64", "L-46591118"), NoProperty),
    M("CLAUDE_3_OPUS", "anthropic.claude-3-opus-20240229-v1:0", 1, <<"regional", "cross-region">>,
      Pair("L-27477D78", "L-8050DFC8"), Pair("L-6C86825E", "L-EB15245D"), NoProperty),
    M("CLAUDE_3_5_SONNET_20240620", "anthropic.claude-3-5-sonnet-20240620-v1:0", 1, <<"regional", "cross-region">>,
      Pair("L-A50569E5", "L-254CACF4"), Pair("L-479B647F", "L-F457545D"), NoProperty),
    M("CLAUDE_3_5_SONNET_20241022", "anthropic.claude-3-5-sonnet-20241022-v2:0", 1, <<"regional", "cross-region">>,
      Pair("L-AD41C330", "L-79E773B3"), Pair("L-FF8B4E28", "L-1D3E59A3"), NoProperty),
    M("CLAUDE_3_5_HAIKU", "anthropic.claude-3-5-haiku-20241022-v1:0", 1, <<"regional", "cross-region">>,
      Pair("L-7AB4ABDD", "L-C7438F8F"), Pair("L-4BF37C17", "L-252DF594"), NoProperty),
    M("CLAUDE_3_7_SONNET", "anthropic.claude-3-7-sonnet-20250219-v1:0", 5, <<"cross-region">>,
      NoProperty, Pair("L-6E888CC2", "L-3D8CC480"), NoProperty),
    M("CLAUDE_HAIKU_4_5", "anthropic.claude-haiku-4-5-20251001-v1:0", 5, <<"cross-region", "global-cross-region">>,
      NoProperty, Pair("L-58BE175A", "L-CCA5DF70"), Pair("L-9A11C666", "L-E5084BBA")),
    M("CLAUDE_SONNET_4", "anthropic.claude-sonnet-4-20250514-v1:0", 5, <<"cross-region", "global-cross-region">>,
      NoProperty, Pair("L-59759B4A", "L-559DCC33"), Pair("L-97E41E39", "L-C63AA5DA")),
    M("CLAUDE_SONNET_4_5", "anthropic.claude-sonnet-4-5-20250929-v1:0", 5, <<"cross-region", "global-cross-region">>,
      NoProperty, Pair("L-F4DDD3EB", "L-4A6BFAB1"), Pair("L-27C57EE8", "L-DB84CE56")),
    M("CLAUDE_SONNET_4_6", "anthropic.claude-sonnet-4-6", 5, <<"cross-region", "global-cross-region">>,
      NoProperty, Pair("L-15B8E632", "L-00FF3314"), Pair("L-7BEE40FB", "L-F6E116D7")),
    M("CLAUDE_SONNET_4_6_1M", "anthropic.claude-sonnet-4-6", 5, <<"cross-region", "global-cross-region">>,
      NoProperty, Pair("L-CE512C9A", "L-47DE5258"), Pair("L-6955C77B", "L-B117CDDA")),
    M("CLAUDE_OPUS_4", "anthropic.claude-opus-4-20250514-v1:0", 5, <<"cross-region">>,
      NoProperty, Pair("L-29C2B0A3", "L-C99C7EF6"), NoProperty),
    M("CLAUDE_OPUS_4_1", "anthropic.claude-opus-4-1-20250805-v1:0", 5, <<"cross-region">>,
      NoProperty, Pair("L-BD85BFCD", "L-7EC72A47"), NoProperty),
    M("CLAUDE_OPUS_4_5", "anthropic.claude-opus-4-5-20251101-v1:0", 5, <<"cross-region", "global-cross-region">>,
      NoProperty, Pair("L-7007E9C9", "L-27989F42"), Pair("L-3ABF6ACC", "L-58424D95")),
    M("CLAUDE_OPUS_4_6", "anthropic.claude-opus-4-6-v1", 5, <<"cross-region", "global-cross-region">>,
      NoProperty, Pair("L-0AD9BBE8", "L-11DFF789"), Pair("L-3DCCFAA4", "L-3DD46812")),
    M("CLAUDE_OPUS_4_6_1M", "anthropic.claude-opus-4-6-v1", 5, <<"cross-region", "global-cross-region">>,
      NoProperty, Pair("L-7DBBE6A1", "L-410BCACA"), Pair("L-4C59C1F4", "L-CDA5906C")),
    M("LLAMA3_8B_INSTRUCT", "meta.llama3-8b-instruct-v1:0", 1, <<"regional">>,
      Pair("L-03A9B835", "L-320BEFEB"), NoProperty, NoProperty),
    M("LLAMA3_70B_INSTRUCT", "meta.llama3-70b-instruct-v1:0", 1, <<"regional">>,
      Pair("L-609E24B0", "L-46D383AF"), NoProperty, NoProperty),
    M("LLAMA3_2_1B_INSTRUCT", "meta.llama3-2-1b-instruct-v1:0", 1, <<"regional", "cross-region">>,
      Pair("L-6F14193C", "L-20CFCD61"), Pair("L-BD9FDA6F", "L-A31D2B40"), NoProperty),
    M("LLAMA3_2_3B_INSTRUCT", "meta.llama3-2-3b-instruct-v1:0", 1, <<"regional", "cross-region">>,
      Pair("L-A7EDC29B", "L-2F9B4FC2"), Pair("L-0B2687F4", "L-6B0A9FAD"), NoProperty),
    M("LLAMA3_2_11B_INSTRUCT", "meta.llama3-2-11b-instruct-v1:0", 1, <<"regional">>,
      Pair("L-E2D0B19E", "L-53CCF898"), NoProperty, NoProperty),
    M("LLAMA3_2_90B_INSTRUCT", "meta.llama3-2-90b-instruct-v1:0", 1, <<"regional">>,
      Pair("L-41C63FF8", "L-EBDED838"), NoProperty, NoProperty),
    M("LLAMA3_1_8B_INSTRUCT", "meta.llama3-1-8b-instruct-v1:0", 1, <<"regional", "cross-region">>,
      Pair("L-9E79C230", "L-19A2ED6C"), Pair("L-9782749C", "L-396C5302"), NoProperty),
    M("LLAMA3_1_70B_INSTRUCT", "meta.llama3-1-70b-instruct-v1:0", 1, <<"regional", "cross-region">>,
      Pair("L-48E55E59", "L-ECA5B974"), Pair("L-92E68994", "L-29644EB3"), NoProperty),
    M("LLAMA3_3_70B_INSTRUCT", "meta.llama3-3-70b-instruct-v1:0", 1, <<"cross-region">>,
      NoProperty, Pair("L-0E7AA8B7", "L-DEDE703C"), NoProperty),
    M("LLAMA4_SCOUT_17B_INSTRUCT", "meta.llama4-scout-17b-instruct-v1:0", 1, <<"cross-region">>,
      NoProperty, Pair("L-532E6630", "L-751B753A"), NoProperty),
    M("LLAMA4_MAVERICK_17B_INSTRUCT", "meta.llama4-maverick-17b-instruct-v1:0", 1, <<"cross-region">>,
      NoProperty, Pair("L-DE3FBBF4", "L-4F18EF2F"), NoProperty),
    M("MISTRAL_7B_INSTRUCT", "mistral.mistral-7b-instruct-v0:2", 1, <<"regional">>,
      Pair("L-02D831F1", "L-D9A35062"), NoProperty, NoProperty),
    M("MISTRAL_SMALL_2402", "mistral.mistral-small-2402-v1:0", 1, <<"regional">>,
      Pair("L-82C15FA8", "L-1CBB0490"), NoProperty, NoProperty),
    M("MISTRAL_LARGE_2402", "mistral.mistral-large-2402-v1:0", 1, <<"regional">>,
      Pair("L-01447289", "L-3AF844DB"), NoProperty, NoProperty),
    M("MISTRAL_LARGE_2407", "mistral.mistral-large-2407-v1:0", 1, <<"regional">>,
      Pair("L-01447289", "L-3AF844DB"), NoProperty, NoProperty),
    M("MISTRAL_LARGE_3", "mistral.mistral-large-3-675b-instruct", 1, <<"regional">>,
      Pair("L-C709F563", "L-5B274E24"), NoProperty, NoProperty),
    M("MINISTRAL_3B", "mistral.ministral-3-3b-instruct", 1, <<"regional">>,
      Pair("L-8A4BEE90", "L-DCA37E91"), NoProperty, NoProperty),
    M("MINISTRAL_8B", "mistral.ministral-3-8b-instruct", 1, <<"regional">>,
      Pair("L-3B98F300", "L-2BDF9A55"), NoProperty, NoProperty),
    M("MINISTRAL_14B", "mistral.ministral-3-14b-instruct", 1, <<"regional">>,
      Pair("L-334E5409", "L-99F7BDBC"), NoProperty, NoProperty),
    M("VOXTRAL_MINI", "mistral.voxtral-mini-3b-2507", 1, <<"regional">>,
      Pair("L-0B767044", "L-17AE85BD"), NoProperty, NoProperty),
    M("VOXTRAL_SMALL", "mistral.voxtral-small-24b-2507", 1, <<"regional">>,
      Pair("L-930E2896", "L-ACB2FB6A"), NoProperty, NoProperty),
    M("COMMAND_R", "cohere.command-r-v1:0", 1, <<"regional">>,
      Pair("L-17F95AA4", "L-A49CA90F"), NoProperty, NoProperty),
    M("COMMAND_R_PLUS", "cohere.command-r-plus-v1:0", 1, <<"regional">>,
      Pair("L-FEE1DCB6", "L-ADB4B3D7"), NoProperty, NoProperty),
    M("EMBED_ENGLISH_V3", "cohere.embed-english-v3", 1, <<"regional">>,
      Pair("L-A2BE277A", "L-FF8E7864"), NoProperty, NoProperty),
    M("EMBED_MULTILINGUAL_V3", "cohere.embed-multilingual-v3", 1, <<"regional">>,
      Pair("L-C2F86908", "L-9E5BD0C6"), NoProperty, NoProperty),
    M("EMBED_V4", "cohere.embed-v4:0", 1, <<"regional", "cross-region", "global-cross-region">>,
      Pair("L-C47B85D5", "L-BE5FD99B"), Pair("L-4C3F0FE6", "L-EB8C1F30"), Pair("L-02DFBB76", "L-7089DC7D")),
    M("JAMBA_1_5_LARGE", "ai21.jamba-1-5-large-v1:0", 1, <<"regional">>,
      Pair("L-CFAB19FF", "L-F4CAA0FD"), NoProperty, NoProperty),
    M("JAMBA_1_5_MINI", "ai21.jamba-1-5-mini-v1:0", 1, <<"regional">>,
      Pair("L-5A778346", "L-0449ADC5"), NoProperty, NoProperty),
    M("DEEPSEEK_R1", "deepseek.r1-v1:0", 1, <<"cross-region">>,
      NoProperty, Pair("L-06B03968", "L-F52323AB"), NoProperty),
    M("QWEN3_NEXT_80B", "qwen.qwen3-next-80b-a3b", 1, <<"regional">>,
      Pair("L-37AB702E", "L-07B3CEEA"), NoProperty, NoProperty),
    M("QWEN3_32B", "qwen.qwen3-32b-v1:0", 1, <<"regional">>,
      Pair("L-B7C52139", "L-E880C759"), NoProperty, NoProperty),
    M("QWEN3_CODER_30B", "qwen.qwen3-coder-480b-a35b-v1:0", 1, <<"regional">>,
      Pair("L-92F81E14", "L-66EE6E0B"), NoProperty, NoProperty),
    M("QWEN3_VL_235B", "qwen.qwen3-235b-a22b-2507-v1:0", 1, <<"regional">>,
      Pair("L-46063925", "L-11B56FB0"), NoProperty, NoProperty),
    M("GEMMA_3_4B", "google.gemma-3-4b-it", 1, <<"regional">>,
      Pair("L-73FB8466", "L-3056DF33"), NoProperty, NoProperty),
    M("GEMMA_3_12B", "google.gemma-3-12b-it", 1, <<"regional">>,
      Pair("L-3FD4A73E", "L-999037CA"), NoProperty, NoProperty),
    M("GEMMA_3_27B", "google.gemma-3-27b-it", 1, <<"regional">>,
      Pair("L-F8729E94", "L-5D46C7AF"), NoProperty, NoProperty),
    M("NEMOTRON_NANO_2", "nvidia.nemotron-nano-9b-v2", 1, <<"regional">>,
      Pair("L-33D3627D", "L-AC7B3FB9"), NoProperty, NoProperty),
    M("NEMOTRON_NANO_2_VL", "nvidia.nemotron-nano-12b-v2", 1, <<"regional">>,
      Pair("L-A05A5476", "L-30B384EA"), NoProperty, NoProperty),
    M("GPT_OSS_20B", "openai.gpt-oss-20b-1:0", 1, <<"regional">>,
      Pair("L-036E14D8", "L-AF7F0545"), NoProperty, NoProperty),
    M("GPT_OSS_120B", "openai.gpt-oss-120b-1:0", 1, <<"regional">>,
      Pair("L-9DC5F595", "L-25B50707"), NoProperty, NoProperty),
    M("GPT_OSS_SAFEGUARD_20B", "openai.gpt-oss-safeguard-20b", 1, <<"regional">>,
      Pair("L-5D8F2F54", "L-65833D55"), NoProperty, NoProperty),
    M("GPT_OSS_SAFEGUARD_120B", "openai.gpt-oss-safeguard-120b", 1, <<"regional">>,
      Pair("L-594C7AC9", "L-C4E013EF"), NoProperty, NoProperty),
    M("K2_THINKING", "moonshot.kimi-k2-thinking", 1, <<"regional">>,
      Pair("L-03579AC2", "L-02572418"), NoProperty, NoProperty),
    M("M2", "minimax.minimax-m2", 1, <<"regional">>,
      Pair("L-A81B7C40", "L-828C986E"), NoProperty, NoProperty)
  >>

\* every descriptor of the two region tables
RegionTableModels == Range(BEDROCK_MODELS_US_WEST_2) \cup Range(BEDROCK_MODELS_US_EAST_1)

\* BEDROCK_MODELS.<family>.<key> of the active table (us-east-1)
Model(key) ==
  IF \E i \in 1..Len(BEDROCK_MODELS_US_EAST_1) : BEDROCK_MODELS_US_EAST_1[i].key = key
  THEN LET i == CHOOSE j \in 1..Len(BEDROCK_MODELS_US_EAST_1) :
                  BEDROCK_MODELS_US_EAST_1[j].key = key
       IN BEDROCK_MODELS_US_EAST_1[i]
  ELSE UndefinedModel

----------------------------------------------------------------------------
(* Registry helper functions *)

\* property access on undefined throws a TypeError
ThrowsTypeError(modelConfig) == modelConfig.tag = "undefined"

\* validateQuotaCodes with independent tests instead of the else-if chain
validateQuotaCodes_independentTests(quotaCodes, modelId) ==
  (IF ~TruthyStr(quotaCodes.tokenQuotaCode) /\ ~TruthyStr(quotaCodes.requestQuotaCode)
   THEN << "Model " \o modelId \o ": No quota codes provided. Consider adding both tokenQuotaCode and requestQuotaCode for complete monitoring." >>
   ELSE <<>>)
  \o (IF ~TruthyStr(quotaCodes.tokenQuotaCode)
      THEN << "Model " \o modelId \o ": Missing tokenQuotaCode. Consider adding for complete token usage monitoring." >>
      ELSE <<>>)
  \o (IF ~TruthyStr(quotaCodes.requestQuotaCode)
      THEN << "Model " \o modelId \o ": Missing requestQuotaCode. Consider adding for complete request monitoring." >>
      ELSE <<>>)

\* the warnings for one pair
validateQuotaCodes(quotaCodes, modelId) ==
  IF ~TruthyStr(quotaCodes.tokenQuotaCode) /\ ~TruthyStr(quotaCodes.requestQuotaCode)
  THEN << "Model " \o modelId \o ": No quota codes provided. Consider adding both tokenQuotaCode and requestQuotaCode for complete monitoring." >>
  ELSE IF ~TruthyStr(quotaCodes.tokenQuotaCode)
  THEN << "Model " \o modelId \o ": Missing tokenQuotaCode. Consider adding for complete token usage monitoring." >>
  ELSE IF ~TruthyStr(quotaCodes.requestQuotaCode)
  THEN << "Model " \o modelId \o ": Missing requestQuotaCode. Consider adding for complete request monitoring." >>
  ELSE <<>>

getQuotaCodes_swapped(modelConfig, endpointType) ==
  CASE endpointType = "regional" -> OrNull(modelConfig.regional)
    [] endpointType = "cross-region" -> OrNull(modelConfig.regional)
    [] endpointType = "global-cross-region" -> OrNull(modelConfig.globalCrossRegion)
    [] OTHER -> Null

getQuotaCodes(modelConfig, endpointType) ==
  CASE endpointType = "regional" -> OrNull(modelConfig.regional)
    [] endpointType = "cross-region" -> OrNull(modelConfig.crossRegion)
    [] endpointType = "global-cross-region" -> OrNull(modelConfig.globalCrossRegion)
    [] OTHER -> Null

\* getQuotaCodes reads a property of modelConfig in the three named cases only
getQuotaCodesThrows(modelConfig, endpointType) ==
  ThrowsTypeError(modelConfig) /\ endpointType \in EndpointTypes

\* quotaCodes?.tokenQuotaCode || null, null written as Undefined's sibling "null"
getTokenQuotaCode(modelConfig, endpointType) ==
  LET quotaCodes == getQuotaCodes(modelConfig, endpointType)
  IN IF quotaCodes.tag = "object" /\ TruthyStr(quotaCodes.tokenQuotaCode)
     THEN quotaCodes.tokenQuotaCode ELSE "null"

getRequestQuotaCode(modelConfig, endpointType) ==
  LET quotaCodes == getQuotaCodes(modelConfig, endpointType)
  IN IF quotaCodes.tag = "object" /\ TruthyStr(quotaCodes.requestQuotaCode)
     THEN quotaCodes.requestQuotaCode ELSE "null"

validateModelEndpointSupport(modelConfig, endpointType) ==
  endpointType \in Range(modelConfig.supportedEndpoints)

\* the supported kinds returned last to first
getSupportedEndpointTypes_reversed(modelConfig) ==
  [i \in 1..Len(modelConfig.supportedEndpoints) |->
     modelConfig.supportedEndpoints[Len(modelConfig.supportedEndpoints) + 1 - i]]

getSupportedEndpointTypes(modelConfig) == modelConfig.supportedEndpoints

\* the console.warn lines of config.supportedEndpoints.forEach, in order
RECURSIVE QuotaConfigWarnings(_, _)
QuotaConfigWarnings(config, i) ==
  IF i > Len(config.supportedEndpoints) THEN <<>>
  ELSE LET quotaCodes == getQuotaCodes(config, config.supportedEndpoints[i])
           warnings == IF quotaCodes.tag = "object"
                       THEN validateQuotaCodes(quotaCodes, config.modelId)
                       ELSE <<>>
       IN [k \in 1..Len(warnings) |-> "[Quota Config Warning] " \o warnings[k]]
            \o QuotaConfigWarnings(config, i + 1)

\* createModelConfig that fills in an empty pair for a listed endpoint kind
\* the config leaves out
createModelConfig_fillsMissingPair(config) ==
  LET Filled(kind, pair) ==
        IF kind \in Range(config.supportedEndpoints) /\ pair.tag # "object"
        THEN Pair(Undefined, Undefined) ELSE pair
  IN [returned |-> [config EXCEPT
                      !.regional = Filled("regional", @),
                      !.crossRegion = Filled("cross-region", @),
                      !.globalCrossRegion = Filled("global-cross-region", @)],
      warnings |-> QuotaConfigWarnings(config, 1)]

\* createModelConfig: what it logs and what it returns (the config itself)
createModelConfig(config) ==
  [returned |-> config, warnings |-> QuotaConfigWarnings(config, 1)]

----------------------------------------------------------------------------
(* Descriptors outside the tables that createModelConfig accepts *)

\* a descriptor with an empty supported-endpoint list
FIXTURE_NO_ENDPOINTS ==
  M("FIXTURE_NO_ENDPOINTS", "fixture.no-endpoints-v1:0", 1, <<>>,
    NoProperty, NoProperty, NoProperty)

\* a descriptor that lists an endpoint kind and defines no pair for it
FIXTURE_NO_CODES ==
  M("FIXTURE_NO_CODES", "fixture.no-codes-v1:0", 1, <<"regional">>,
    NoProperty, NoProperty, NoProperty)

\* a descriptor whose pair for a listed endpoint kind is the empty object
FIXTURE_EMPTY_PAIR ==
  M("FIXTURE_EMPTY_PAIR", "fixture.empty-pair-v1:0", 5, <<"cross-region">>,
    NoProperty, Pair(Undefined, Undefined), NoProperty)

\* a descriptor whose pair for a listed endpoint kind has the token code only
FIXTURE_TOKEN_ONLY ==
  M("FIXTURE_TOKEN_ONLY", "fixture.token-only-v1:0", 1,
    <<"regional", "cross-region">>,
    Pair("L-00000001", Undefined), Pair("L-00000002", "L-00000003"), NoProperty)

FixtureModels ==
  {FIXTURE_NO_ENDPOINTS, FIXTURE_NO_CODES, FIXTURE_EMPTY_PAIR, FIXTURE_TOKEN_ONLY}

----------------------------------------------------------------------------
(* Calls of the registry helpers on one descriptor and one endpoint kind *)

\* the arguments a caller may pass: a table descriptor, a descriptor outside
\* the tables, or the undefined a missing table key evaluates to
ProbeModels == RegionTableModels \cup FixtureModels \cup {UndefinedModel}

\* the endpoint kinds a caller may pass, one of them outside EndpointType
ProbeEndpointTypes == EndpointTypes \cup {"on-demand"}

RegistryInit ==
  probe \in [model : ProbeModels, endpointType : ProbeEndpointTypes,
             supports : {<<>>}, codes : {<<>>}, supported : {<<>>},
             tokenCode : {<<>>}, requestCode : {<<>>}, created : {<<>>},
             threw : {{}}]

CallValidateModelEndpointSupport ==
  /\ probe.supports = <<>>
  /\ "validateModelEndpointSupport" \notin probe.threw
  /\ probe' = IF ThrowsTypeError(probe.model)
              THEN [probe EXCEPT !.threw = @ \cup {"validateModelEndpointSupport"}]
              ELSE [probe EXCEPT !.supports =
                      <<validateModelEndpointSupport(probe.model, probe.endpointType)>>]

CallGetQuotaCodes ==
  /\ probe.codes = <<>>
  /\ "getQuotaCodes" \notin probe.threw
  /\ probe' = IF getQuotaCodesThrows(probe.model, probe.endpointType)
              THEN [probe EXCEPT !.threw = @ \cup {"getQuotaCodes"}]
              ELSE [probe EXCEPT !.codes =
                      <<getQuotaCodes(probe.model, probe.endpointType)>>]

CallGetTokenQuotaCode ==
  /\ probe.tokenCode = <<>>
  /\ "getTokenQuotaCode" \notin probe.threw
  /\ probe' = IF getQuotaCodesThrows(probe.model, probe.endpointType)
              THEN [probe EXCEPT !.threw = @ \cup {"getTokenQuotaCode"}]
              ELSE [probe EXCEPT !.tokenCode =
                      <<getTokenQuotaCode(probe.model, probe.endpointType)>>]

CallGetRequestQuotaCode ==
  /\ probe.requestCode = <<>>
  /\ "getRequestQuotaCode" \notin probe.threw
  /\ probe' = IF getQuotaCodesThrows(probe.model, probe.endpointType)
              THEN [probe EXCEPT !.threw = @ \cup {"getRequestQuotaCode"}]
              ELSE [probe EXCEPT !.requestCode =
                      <<getRequestQuotaCode(probe.model, probe.endpointType)>>]

CallGetSupportedEndpointTypes ==
  /\ probe.supported = <<>>
  /\ "getSupportedEndpointTypes" \notin probe.threw
  /\ probe' = IF ThrowsTypeError(probe.model)
              THEN [probe EXCEPT !.threw = @ \cup {"getSupportedEndpointTypes"}]
              ELSE [probe EXCEPT !.supported =
                      <<getSupportedEndpointTypes(probe.model)>>]

\* createModelConfig(config): the table keeps the object the call returns
CallCreateModelConfig ==
  /\ probe.created = <<>>
  /\ "createModelConfig" \notin probe.threw
  /\ probe' = IF ThrowsTypeError(probe.model)
              THEN [probe EXCEPT !.threw = @ \cup {"createModelConfig"}]
              ELSE LET result == createModelConfig(probe.model)
                   IN [probe EXCEPT !.model = result.returned,
                                    !.created = <<[config |-> probe.model,
                                                   returned |-> result.returned,
                                                   warnings |-> result.warnings]>>]

----------------------------------------------------------------------------
(* Dashboard entries *)

\* interface DashboardConfig; applicationProfileIds is <<>> when left out
Config(modelConfig, endpointType, applicationProfileIds) ==
  [modelConfig |-> modelConfig, endpointType |-> endpointType,
   applicationProfileIds |-> applicationProfileIds]

\* the list the constructor declares
allDashboardConfigs ==
  << Config(Model("NOVA_2_LITE_V1"), "cross-region", <<>>),
     Config(Model("CLAUDE_HAIKU_4_5"), "cross-region", <<>>),
     Config(Model("CLAUDE_SONNET_4_5"), "global-cross-region", <<>>),
     Config(Model("CLAUDE_SONNET_4_6"), "global-cross-region", <<>>),
     Config(Model("CLAUDE_SONNET_4_6_1M"), "global-cross-region", <<>>),
     Config(Model("CLAUDE_OPUS_4_5"), "global-cross-region", <<>>),
     Config(Model("CLAUDE_OPUS_4_6"), "global-cross-region", <<>>),
     Config(Model("CLAUDE_OPUS_4_6_1M"), "global-cross-region", <<>>) >>

\* the aggregation example the constructor's comment gives
aggregationExample ==
  Config(Model("CLAUDE_SONNET_4_5"), "cross-region",
         <<"your-profile-id-1", "your-profile-id-2">>)

----------------------------------------------------------------------------
(* validateAllDashboardConfigs *)

NoError == [type |-> "none", errors |-> <<>>]

\* the line pushed for an entry that fails validateModelEndpointSupport;
\* endpointType and supported are the values the message interpolates
ErrorLine(config, index) ==
  LET supported == getSupportedEndpointTypes(config.modelConfig)
  IN IF Len(supported) = 0
     THEN [index |-> index, modelId |-> config.modelConfig.modelId,
           text |-> "not found in quota registry",
           endpointType |-> Undefined, supported |-> <<>>]
     ELSE [index |-> index, modelId |-> config.modelConfig.modelId,
           text |-> "does not support endpoint type",
           endpointType |-> config.endpointType, supported |-> supported]

\* configs.forEach from the entry at (0-based) index on, then the throw
RECURSIVE ValidateEach(_, _, _)
ValidateEach(cfgs, index, errors) ==
  IF index >= Len(cfgs)
  THEN IF Len(errors) > 0 THEN [type |-> "Error", errors |-> errors] ELSE NoError
  ELSE LET config == cfgs[index + 1]
       IN IF ThrowsTypeError(config.modelConfig)
          THEN [type |-> "TypeError", errors |-> <<>>]
          ELSE IF ~validateModelEndpointSupport(config.modelConfig, config.endpointType)
               THEN ValidateEach(cfgs, index + 1, Append(errors, ErrorLine(config, index)))
               ELSE ValidateEach(cfgs, index + 1, errors)

validateAllDashboardConfigs_firstOnly(cfgs) ==
  ValidateEach(SubSeq(cfgs, 1, IF Len(cfgs) > 0 THEN 1 ELSE 0), 0, <<>>)

validateAllDashboardConfigs(cfgs) == ValidateEach(cfgs, 0, <<>>)

----------------------------------------------------------------------------
(* getFullModelId, getModelFamily *)

\* the prefixes of the two cross-region kinds exchanged
getFullModelId_prefixesSwapped(modelConfig, endpointType) ==
  LET modelId == modelConfig.modelId
  IN CASE endpointType = "regional" -> modelId
       [] endpointType = "cross-region" -> "global." \o modelId
       [] endpointType = "global-cross-region" -> "us." \o modelId
       [] OTHER -> modelId

getFullModelId(modelConfig, endpointType) ==
  LET modelId == modelConfig.modelId
  IN CASE endpointType = "regional" -> modelId
       [] endpointType = "cross-region" -> "us." \o modelId
       [] endpointType = "global-cross-region" -> "global." \o modelId
       [] OTHER -> modelId

\* String.prototype.startsWith
StartsWith(s, prefix) ==
  Len(s) >= Len(prefix) /\ SubSeq(s, 1, Len(prefix)) = prefix

\* the prefix rules in the order the code tests them
FamilyRules ==
  << <<"amazon.nova-", "Amazon Nova">>, <<"amazon.titan-", "Amazon Titan">>,
     <<"anthropic.claude", "Anthropic Claude">>, <<"meta", "Meta">>,
     <<"mistral.", "Mistral AI">>, <<"cohere.", "Cohere">>,
     <<"ai21.", "AI21 Labs">>, <<"deepseek.", "DeepSeek">>,
     <<"google.", "Google">>, <<"nvidia.", "NVIDIA">>,
     <<"openai.", "OpenAI">>, <<"qwen.", "Qwen">>, <<"kimi.", "Kimi">>,
     <<"minimax.", "Minimax">>, <<"magistral.", "Magistral">> >>

\* the rules matched against the full model id of a cross-region entry
getModelFamily_ofFullModelId(modelId) ==
  LET hits == {i \in 1..Len(FamilyRules) : StartsWith("us." \o modelId, FamilyRules[i][1])}
  IN IF hits = {} THEN "Other Models"
     ELSE FamilyRules[CHOOSE i \in hits : \A j \in hits : i <= j][2]

getModelFamily(modelId) ==
  LET hits == {i \in 1..Len(FamilyRules) : StartsWith(modelId, FamilyRules[i][1])}
  IN IF hits = {} THEN "Other Models"
     ELSE FamilyRules[CHOOSE i \in hits : \A j \in hits : i <= j][2]

----------------------------------------------------------------------------
(* Fetcher tuple lists *)

\* the scheduled tuple of an entry kept although the entry has no pair
EventBridgeModel_keepsEntryWithoutPair(config) ==
  LET quotaCodes == getQuotaCodes(config.modelConfig, config.endpointType)
      fullModelId == getFullModelId(config.modelConfig, config.endpointType)
  IN IF quotaCodes.tag # "object"
     THEN << [modelId |-> fullModelId, tokenQuotaCode |-> Undefined,
              requestQuotaCode |-> Undefined] >>
     ELSE << [modelId |-> fullModelId,
              tokenQuotaCode |-> quotaCodes.tokenQuotaCode,
              requestQuotaCode |-> quotaCodes.requestQuotaCode] >>

\* .map(config => ...) of one entry: <<>> for the null that filter(Boolean) drops
EventBridgeModel(config) ==
  LET quotaCodes == getQuotaCodes(config.modelConfig, config.endpointType)
      fullModelId == getFullModelId(config.modelConfig, config.endpointType)
  IN IF quotaCodes.tag # "object" THEN <<>>
     ELSE << [modelId |-> fullModelId,
              tokenQuotaCode |-> quotaCodes.tokenQuotaCode,
              requestQuotaCode |-> quotaCodes.requestQuotaCode] >>

\* the initial-fetch tuple carrying the registry model id without its
\* endpoint prefix
CustomResourceModel_bareModelId(config) ==
  LET quotaCodes == getQuotaCodes(config.modelConfig, config.endpointType)
  IN IF quotaCodes.tag # "object" THEN <<>>
     ELSE << [modelId |-> config.modelConfig.modelId,
              tokenQuotaCode |-> quotaCodes.tokenQuotaCode,
              requestQuotaCode |-> quotaCodes.requestQuotaCode] >>

CustomResourceModel(config) ==
  LET quotaCodes == getQuotaCodes(config.modelConfig, config.endpointType)
      fullModelId == getFullModelId(config.modelConfig, config.endpointType)
  IN IF quotaCodes.tag # "object" THEN <<>>
     ELSE << [modelId |-> fullModelId,
              tokenQuotaCode |-> quotaCodes.tokenQuotaCode,
              requestQuotaCode |-> quotaCodes.requestQuotaCode] >>

RECURSIVE Flatten(_)
Flatten(ss) == IF ss = <<>> THEN <<>> ELSE Head(ss) \o Flatten(Tail(ss))

EventBridgeModels(cfgs) ==
  Flatten([i \in 1..Len(cfgs) |-> EventBridgeModel(cfgs[i])])

CustomResourceModels(cfgs) ==
  Flatten([i \in 1..Len(cfgs) |-> CustomResourceModel(cfgs[i])])

----------------------------------------------------------------------------
(* Metrics and math expressions of one dashboard entry *)

\* cdk.Duration.minutes, in seconds
Minutes(n) == n * 60

\* new cloudwatch.Metric({...})
Metric(namespace, metricName, modelId, statistic, period) ==
  [tag |-> "Metric", namespace |-> namespace, metricName |-> metricName,
   ModelId |-> modelId, statistic |-> statistic, period |-> period]

createProfileMetrics_maxTokensMaximum(profileId) ==
  [inputTokens |-> Metric("AWS/Bedrock", "InputTokenCount", profileId, "Sum", Minutes(1)),
   cacheWriteTokens |-> Metric("AWS/Bedrock", "CacheWriteInputTokenCount", profileId, "Sum", Minutes(1)),
   outputTokens |-> Metric("AWS/Bedrock", "OutputTokenCount", profileId, "Sum", Minutes(1)),
   maxTokens |-> Metric("Bedrock/Quotas", "MaxTokens", profileId, "Maximum", Minutes(1)),
   invocations |-> Metric("AWS/Bedrock", "Invocations", profileId, "Sum", Minutes(1))]

createProfileMetrics(profileId) ==
  [inputTokens |-> Metric("AWS/Bedrock", "InputTokenCount", profileId, "Sum", Minutes(1)),
   cacheWriteTokens |-> Metric("AWS/Bedrock", "CacheWriteInputTokenCount", profileId, "Sum", Minutes(1)),
   outputTokens |-> Metric("AWS/Bedrock", "OutputTokenCount", profileId, "Sum", Minutes(1)),
   maxTokens |-> Metric("Bedrock/Quotas", "MaxTokens", profileId, "Sum", Minutes(1)),
   invocations |-> Metric("AWS/Bedrock", "Invocations", profileId, "Sum", Minutes(1))]

\* an entry counts as aggregated as soon as it has a list, even an empty one
hasApplicationProfiles_anyList(config) == Len(config.applicationProfileIds) >= 0

hasApplicationProfiles(config) == Len(config.applicationProfileIds) > 0

allProfileIds(config) ==
  LET fullModelId == getFullModelId(config.modelConfig, config.endpointType)
  IN IF hasApplicationProfiles(config)
     THEN <<fullModelId>> \o config.applicationProfileIds
     ELSE <<fullModelId>>

Suffix_none(index) == ""

\* index === 0 ? '' : `_${index}` (index counts from 0)
Suffix(index) == IF index = 0 THEN "" ELSE "_" \o ToString(index)

\* the variable suffix taken from the first position that holds the same id
allProfileMetrics_suffixPerDistinctId(config) ==
  LET ids == allProfileIds(config)
      First(i) == CHOOSE j \in 1..i : ids[j] = ids[i] /\ \A h \in 1..(j - 1) : ids[h] # ids[i]
  IN [i \in 1..Len(ids) |->
        [id |-> ids[i], metrics |-> createProfileMetrics(ids[i]),
         suffix |-> Suffix(First(i) - 1)]]

allProfileMetrics(config) ==
  LET ids == allProfileIds(config)
  IN [i \in 1..Len(ids) |->
        [id |-> ids[i], metrics |-> createProfileMetrics(ids[i]), suffix |-> Suffix(i - 1)]]

\* expressions: a variable, a sum of terms, a product by a number, FILL(m, REPEAT)
Ref(key) == [op |-> "ref", key |-> key, args |-> <<>>, factor |-> 1]
Plus(args) == [op |-> "+", key |-> "", args |-> args, factor |-> 1]
Times(e, factor) == [op |-> "*", key |-> "", args |-> <<e>>, factor |-> factor]
FillRepeat(e) == [op |-> "FILL_REPEAT", key |-> "", args |-> <<e>>, factor |-> 1]

\* parts.join(' + ')
JoinPlus(parts) == Plus([i \in 1..Len(parts) |-> Ref(parts[i])])

\* new cloudwatch.MathExpression({...})
MathExpression(expression, usingMetrics, label, period) ==
  [tag |-> "MathExpression", expression |-> expression,
   usingMetrics |-> usingMetrics, label |-> label, period |-> period]

\* the five arrays of variable names filled by allProfileMetrics.forEach
Parts(config, base) ==
  LET apm == allProfileMetrics(config)
  IN [i \in 1..Len(apm) |-> base \o apm[i].suffix]

MetricFields == {"inputTokens", "cacheWriteTokens", "outputTokens", "maxTokens", "invocations"}

\* usingMetrics[key] = ... in forEach order: a later identity overwrites an
\* earlier one that has the same variable name
usingMetrics(config) ==
  LET apm == allProfileMetrics(config)
      Keys == {base \o apm[i].suffix : base \in MetricFields, i \in 1..Len(apm)}
      Writers(k) == {<<i, base>> \in (1..Len(apm)) \X MetricFields : base \o apm[i].suffix = k}
      Last(k) == CHOOSE w \in Writers(k) : \A v \in Writers(k) : v[1] <= w[1]
  IN [k \in Keys |-> apm[Last(k)[1]].metrics[Last(k)[2]]]

ProfilesLabel(config) == "(" \o ToString(Len(allProfileIds(config))) \o " profiles)"

actualConsumption_outputUnscaled(config) ==
  LET burndownRate == config.modelConfig.outputTokenBurndownRate
      metrics == allProfileMetrics(config)[1].metrics
  IN IF hasApplicationProfiles(config)
     THEN MathExpression(
            Plus(<< JoinPlus(Parts(config, "inputTokens")),
                    JoinPlus(Parts(config, "cacheWriteTokens")),
                    JoinPlus(Parts(config, "outputTokens")) >>),
            usingMetrics(config),
            "Actual Consumption " \o ProfilesLabel(config), Minutes(1))
     ELSE MathExpression(
            Plus(<< Ref("inputTokens"), Ref("cacheWriteTokens"), Ref("outputTokens") >>),
            [k \in {"inputTokens", "cacheWriteTokens", "outputTokens"} |-> metrics[k]],
            "Actual Consumption", Minutes(1))

\* the actualConsumption of the aggregated branch, over allProfileMetrics
aggregatedActualConsumption(config) ==
  LET burndownRate == config.modelConfig.outputTokenBurndownRate
  IN MathExpression(
       Plus(<< JoinPlus(Parts(config, "inputTokens")),
               JoinPlus(Parts(config, "cacheWriteTokens")),
               Times(JoinPlus(Parts(config, "outputTokens")), burndownRate) >>),
       usingMetrics(config),
       "Actual Consumption " \o ProfilesLabel(config), Minutes(1))

actualConsumption(config) ==
  LET burndownRate == config.modelConfig.outputTokenBurndownRate
      metrics == allProfileMetrics(config)[1].metrics
  IN IF hasApplicationProfiles(config)
     THEN aggregatedActualConsumption(config)
     ELSE MathExpression(
            Plus(<< Ref("inputTokens"), Ref("cacheWriteTokens"),
                    Times(Ref("outputTokens"), burndownRate) >>),
            [k \in {"inputTokens", "cacheWriteTokens", "outputTokens"} |-> metrics[k]],
            "Actual Consumption", Minutes(1))

initialReservation_primaryMaxTokensOnly(config) ==
  LET metrics == allProfileMetrics(config)[1].metrics
  IN IF hasApplicationProfiles(config)
     THEN MathExpression(
            Plus(<< JoinPlus(Parts(config, "inputTokens")),
                    JoinPlus(Parts(config, "cacheWriteTokens")),
                    Ref("maxTokens") >>),
            usingMetrics(config),
            "Initial Reservation " \o ProfilesLabel(config), Minutes(1))
     ELSE MathExpression(
            Plus(<< Ref("inputTokens"), Ref("cacheWriteTokens"), Ref("maxTokens") >>),
            [k \in {"inputTokens", "cacheWriteTokens", "maxTokens"} |-> metrics[k]],
            "Initial Reservation", Minutes(1))

\* the initialReservation of the aggregated branch
aggregatedInitialReservation(config) ==
  MathExpression(
    Plus(<< JoinPlus(Parts(config, "inputTokens")),
            JoinPlus(Parts(config, "cacheWriteTokens")),
            JoinPlus(Parts(config, "maxTokens")) >>),
    usingMetrics(config),
    "Initial Reservation " \o ProfilesLabel(config), Minutes(1))

initialReservation(config) ==
  LET metrics == allProfileMetrics(config)[1].metrics
  IN IF hasApplicationProfiles(config)
     THEN aggregatedInitialReservation(config)
     ELSE MathExpression(
            Plus(<< Ref("inputTokens"), Ref("cacheWriteTokens"), Ref("maxTokens") >>),
            [k \in {"inputTokens", "cacheWriteTokens", "maxTokens"} |-> metrics[k]],
            "Initial Reservation", Minutes(1))

\* the totalInvocations of the aggregated branch
aggregatedTotalInvocations(config) ==
  MathExpression(JoinPlus(Parts(config, "invocations")), usingMetrics(config),
                 "Total Invocations " \o ProfilesLabel(config), Minutes(1))

totalInvocations(config) ==
  IF hasApplicationProfiles(config)
  THEN aggregatedTotalInvocations(config)
  ELSE allProfileMetrics(config)[1].metrics.invocations

\* the limit series read as a per-minute sum
QuotaMetric_sum(metricName, fullModelId) ==
  Metric("Bedrock/Quotas", metricName, fullModelId, "Sum", Minutes(1))

\* the TokenQuota / RequestQuota series the fetcher publishes, read as Maximum
QuotaMetric(metricName, fullModelId) ==
  Metric("Bedrock/Quotas", metricName, fullModelId, "Maximum", Minutes(1))

\* FILL(tokenQuota, REPEAT) / FILL(requestQuota, REPEAT)
QuotaLine(variable, metricName, label, fullModelId) ==
  MathExpression(FillRepeat(Ref(variable)),
                 [k \in {variable} |-> QuotaMetric(metricName, fullModelId)],
                 label, Minutes(1))

----------------------------------------------------------------------------
(* The metrics store and the evaluation of a series in one bucket *)

MaxBucket == 2
MaxRequests == 2
MaxInputTokens == 2
MaxCacheWriteTokens == 1
MaxMaxTokens == 2

Buckets == 1..MaxBucket

\* a data point of a series: absent, or a number
Absent == [present |-> FALSE, value |-> 0]
Point(v) == [present |-> TRUE, value |-> v]

\* the samples of one series in one bucket: how many, their sum, their maximum
NoSamples == [n |-> 0, sum |-> 0, max |-> 0]
AddSample(agg, v) ==
  [n |-> agg.n + 1, sum |-> agg.sum + v,
   max |-> IF agg.n = 0 \/ v > agg.max THEN v ELSE agg.max]

SeriesOf(metric) == <<metric.namespace, metric.metricName, metric.ModelId>>

\* PutMetricData of one value with the current timestamp
Publish(st, series, bucket, v) ==
  [st EXCEPT ![series][bucket] = AddSample(st[series][bucket], v)]

\* the data point a metric yields for a bucket under its statistic;
\* a bucket with no sample has no data point
GetMetricData(metric, st, bucket) ==
  IF SeriesOf(metric) \notin DOMAIN st THEN Absent
  ELSE LET agg == st[SeriesOf(metric)][bucket]
       IN IF agg.n = 0 THEN Absent
          ELSE CASE metric.statistic = "Sum" -> Point(agg.sum)
                 [] metric.statistic = "Maximum" -> Point(agg.max)
                 [] metric.statistic = "SampleCount" -> Point(agg.n)
                 [] metric.statistic = "Average" -> Point(agg.sum \div agg.n)

\* metric math: arithmetic on series yields a data point only where every
\* operand has one; FILL(m, REPEAT) repeats the most recent earlier point
RECURSIVE Eval(_, _, _, _)
Eval(e, using, st, bucket) ==
  CASE e.op = "ref" ->
         IF e.key \in DOMAIN using THEN GetMetricData(using[e.key], st, bucket) ELSE Absent
    [] e.op = "+" ->
         LET vs == [i \in 1..Len(e.args) |-> Eval(e.args[i], using, st, bucket)]
             SumTo[i \in 0..Len(vs)] == IF i = 0 THEN 0 ELSE SumTo[i - 1] + vs[i].value
         IN IF \A i \in 1..Len(vs) : vs[i].present THEN Point(SumTo[Len(vs)]) ELSE Absent
    [] e.op = "*" ->
         LET v == Eval(e.args[1], using, st, bucket)
         IN IF v.present THEN Point(v.value * e.factor) ELSE Absent
    [] e.op = "FILL_REPEAT" ->
         LET have == {b \in 1..bucket : Eval(e.args[1], using, st, b).present}
         IN IF have = {} THEN Absent
            ELSE Eval(e.args[1], using, st, CHOOSE b \in have : \A c \in have : c <= b)

\* the data point of a dashboard series (a metric or a math expression)
SeriesValue(series, st, bucket) ==
  IF series.tag = "Metric" THEN GetMetricData(series, st, bucket)
  ELSE Eval(series.expression, series.usingMetrics, st, bucket)

----------------------------------------------------------------------------
(* Traffic on the identities of one dashboard entry *)

\* entries whose series are read: rate 1 and rate 5, alone and aggregated
EstimatorEntries ==
  { allDashboardConfigs[1], allDashboardConfigs[4],
    Config(Model("NOVA_2_LITE_V1"), "cross-region", <<"grjihoh0los8">>),
    Config(Model("CLAUDE_SONNET_4_5"), "cross-region", <<"cypje2y15yrd">>) }

UsageCounters == {"InputTokenCount", "CacheWriteInputTokenCount", "OutputTokenCount", "Invocations"}

AllSeries(config) ==
  {<<"AWS/Bedrock", c, id>> : c \in UsageCounters, id \in Range(allProfileIds(config))}
    \cup {<<"Bedrock/Quotas", "MaxTokens", id>> : id \in Range(allProfileIds(config))}

\* the series of an entry's three graphs and the identities they read
Panel(config) ==
  [ids |-> allProfileIds(config),
   initialReservation |-> initialReservation(config),
   actualConsumption |-> actualConsumption(config),
   totalInvocations |-> totalInvocations(config)]

EstimatorInit ==
  /\ entry \in EstimatorEntries
  /\ panel = Panel(entry)
  /\ now = 1
  /\ started = 0
  /\ inflight = EmptyBag
  /\ store = [s \in AllSeries(entry) |-> [b \in Buckets |-> NoSamples]]

\* a caller starts a request on one identity of the entry; an instrumented
\* caller publishes the request's max_tokens before the call
StartRequest(profileId, maxTokens, instrumented) ==
  /\ started < MaxRequests
  /\ started' = started + 1
  /\ inflight' = inflight (+) SetToBag({[profileId |-> profileId, maxTokens |-> maxTokens]})
  /\ store' = IF instrumented
              THEN Publish(store, <<"Bedrock/Quotas", "MaxTokens", profileId>>, now, maxTokens)
              ELSE store
  /\ UNCHANGED <<entry, panel, now>>

\* the request ends: the service emits the four usage counters of the request
CompleteRequest(r, inputTokens, cacheWriteTokens, outputTokens) ==
  /\ BagIn(r, inflight)
  /\ outputTokens <= r.maxTokens
  /\ inflight' = inflight (-) SetToBag({r})
  /\ store' =
       Publish(
         Publish(
           Publish(
             Publish(store, <<"AWS/Bedrock", "InputTokenCount", r.profileId>>, now, inputTokens),
             <<"AWS/Bedrock", "CacheWriteInputTokenCount", r.profileId>>, now, cacheWriteTokens),
           <<"AWS/Bedrock", "OutputTokenCount", r.profileId>>, now, outputTokens),
         <<"AWS/Bedrock", "Invocations", r.profileId>>, now, 1)
  /\ UNCHANGED <<entry, panel, now, started>>

\* the next one-minute bucket begins
Tick ==
  /\ now < MaxBucket
  /\ now' = now + 1
  /\ UNCHANGED <<entry, panel, started, inflight, store>>

Start ==
  \E profileId \in Range(panel.ids), maxTokens \in 1..MaxMaxTokens,
     instrumented \in BOOLEAN :
    StartRequest(profileId, maxTokens, instrumented)

Complete ==
  \E r \in BagToSet(inflight), inputTokens \in 1..MaxInputTokens,
     cacheWriteTokens \in 0..MaxCacheWriteTokens, outputTokens \in 1..MaxMaxTokens :
    CompleteRequest(r, inputTokens, cacheWriteTokens, outputTokens)

----------------------------------------------------------------------------
(* The stack constructor *)

MaxConfigs == 3

\* entries a list may declare: valid ones, entries naming an unsupported
\* endpoint kind, an entry whose descriptor the active table lacks, and
\* entries on descriptors outside the tables
CandidateConfigs ==
  { allDashboardConfigs[1], allDashboardConfigs[4],
    Config(Model("NOVA_PREMIER_V1"), "regional", <<>>),
    Config(Model("CLAUDE_OPUS_4"), "global-cross-region", <<>>),
    Config(Model("NOVA_CANVAS_V1"), "regional", <<>>),
    Config(Model("CLAUDE_SONNET_4_7"), "cross-region", <<>>),
    Config(FIXTURE_NO_ENDPOINTS, "regional", <<>>),
    Config(FIXTURE_NO_CODES, "regional", <<>>),
    aggregationExample }

RECURSIVE SeqsUpTo(_, _)
SeqsUpTo(S, n) ==
  IF n = 0 THEN {<<>>}
  ELSE LET shorter == SeqsUpTo(S, n - 1)
       IN shorter \cup {Append(s, x) : s \in {t \in shorter : Len(t) = n - 1}, x \in S}

BuildInit ==
  /\ configs \in SeqsUpTo(CandidateConfigs, MaxConfigs) \cup {allDashboardConfigs}
  /\ pc = "validate"
  /\ thrown = NoError
  /\ constructs = <<>>
  /\ eventBridgeModels = <<>>
  /\ customResourceModels = <<>>
  /\ widgets = <<>>
  /\ currentFamily = "null"
  /\ modelsWithMissingQuotas = <<>>
  /\ idx = 0

\* validateAllDashboardConfigs(allDashboardConfigs): a throw ends the constructor
Validate ==
  /\ pc = "validate"
  /\ thrown' = validateAllDashboardConfigs(configs)
  /\ pc' = IF thrown'.type = "none" THEN "QuotaFetcher" ELSE "aborted"
  /\ UNCHANGED <<configs, constructs, eventBridgeModels, customResourceModels,
                 widgets, currentFamily, modelsWithMissingQuotas, idx>>

\* new lambda.Function(this, 'QuotaFetcher', ...) and its two policy statements
CreateQuotaFetcher ==
  /\ pc = "QuotaFetcher"
  /\ constructs' = Append(constructs, "QuotaFetcher")
  /\ pc' = "QuotaProvider"
  /\ UNCHANGED <<configs, thrown, eventBridgeModels, customResourceModels,
                 widgets, currentFamily, modelsWithMissingQuotas, idx>>

\* new cr.Provider(this, 'QuotaProvider', ...)
CreateQuotaProvider ==
  /\ pc = "QuotaProvider"
  /\ constructs' = Append(constructs, "QuotaProvider")
  /\ pc' = "DailyQuotaRefresh"
  /\ UNCHANGED <<configs, thrown, eventBridgeModels, customResourceModels,
                 widgets, currentFamily, modelsWithMissingQuotas, idx>>

\* new events.Rule(this, 'DailyQuotaRefresh', ...)
CreateDailyRefreshRule ==
  /\ pc = "DailyQuotaRefresh"
  /\ constructs' = Append(constructs, "DailyQuotaRefresh")
  /\ pc' = "eventBridgeModels"
  /\ UNCHANGED <<configs, thrown, eventBridgeModels, customResourceModels,
                 widgets, currentFamily, modelsWithMissingQuotas, idx>>

\* eventBridgeModels and dailyRefreshRule.addTarget(...)
AddRuleTarget ==
  /\ pc = "eventBridgeModels"
  /\ eventBridgeModels' = EventBridgeModels(configs)
  /\ constructs' = Append(constructs, "DailyQuotaRefreshTarget")
  /\ pc' = "BedrockQuotaDashboard"
  /\ UNCHANGED <<configs, thrown, customResourceModels,
                 widgets, currentFamily, modelsWithMissingQuotas, idx>>

\* new cloudwatch.Dashboard(this, 'BedrockQuotaDashboard', ...)
CreateDashboard ==
  /\ pc = "BedrockQuotaDashboard"
  /\ constructs' = Append(constructs, "BedrockQuotaDashboard")
  /\ pc' = "InitialQuotaFetch"
  /\ UNCHANGED <<configs, thrown, eventBridgeModels, customResourceModels,
                 widgets, currentFamily, modelsWithMissingQuotas, idx>>

\* customResourceModels and new cdk.CustomResource(this, 'InitialQuotaFetch', ...)
CreateInitialQuotaFetch ==
  /\ pc = "InitialQuotaFetch"
  /\ customResourceModels' = CustomResourceModels(configs)
  /\ constructs' = Append(constructs, "InitialQuotaFetch")
  /\ pc' = "widgets"
  /\ idx' = 1
  /\ UNCHANGED <<configs, thrown, eventBridgeModels,
                 widgets, currentFamily, modelsWithMissingQuotas>>

\* new cloudwatch.TextWidget({ markdown: `# ${modelFamily}`, ... })
TextWidget(modelFamily) ==
  [kind |-> "TextWidget", markdown |-> "# " \o modelFamily, width |-> 24, height |-> 1]

\* new cloudwatch.GraphWidget({ title, left, ... })
GraphWidget(title, left) ==
  [kind |-> "GraphWidget", title |-> title, left |-> left,
   width |-> 8, height |-> 6, period |-> Minutes(1)]

\* the three graphs dashboard.addWidgets puts on one row for an entry
GraphRow(config) ==
  LET fullModelId == getFullModelId(config.modelConfig, config.endpointType)
      titleSuffix == IF hasApplicationProfiles(config)
                     THEN " (" \o ToString(Len(allProfileIds(config))) \o " profiles aggregated)"
                     ELSE ""
      tokenQuotaLine == QuotaLine("tokenQuota", "TokenQuota", "Quota Limit (Tokens)", fullModelId)
      requestQuotaLine == QuotaLine("requestQuota", "RequestQuota", "Quota Limit (Requests)", fullModelId)
  IN << GraphWidget(fullModelId \o " - Initial Reservation" \o titleSuffix,
                    <<initialReservation(config), tokenQuotaLine>>),
        GraphWidget(fullModelId \o " - Actual Consumption" \o titleSuffix,
                    <<actualConsumption(config), tokenQuotaLine>>),
        GraphWidget(fullModelId \o " - Request Quota Consumption" \o titleSuffix,
                    <<totalInvocations(config), requestQuotaLine>>) >>

\* the iteration in which a skipped entry, too, becomes the current family
AddEntryWidgets_skipSetsFamily ==
  /\ pc = "widgets"
  /\ idx <= Len(configs)
  /\ LET config == configs[idx]
         quotaCodes == getQuotaCodes(config.modelConfig, config.endpointType)
         modelFamily == getModelFamily(config.modelConfig.modelId)
     IN IF quotaCodes.tag # "object"
        THEN /\ modelsWithMissingQuotas' =
                  Append(modelsWithMissingQuotas,
                         config.modelConfig.modelId \o " (" \o config.endpointType \o ")")
             /\ currentFamily' = modelFamily
             /\ UNCHANGED widgets
        ELSE /\ currentFamily' = modelFamily
             /\ widgets' = (IF modelFamily # currentFamily
                            THEN Append(widgets, <<TextWidget(modelFamily)>>)
                            ELSE widgets) \o <<GraphRow(config)>>
             /\ UNCHANGED modelsWithMissingQuotas
  /\ idx' = idx + 1
  /\ UNCHANGED <<pc, configs, thrown, constructs, eventBridgeModels, customResourceModels>>

\* the iteration with a banner in front of every rendered entry
AddEntryWidgets_bannerEveryEntry ==
  /\ pc = "widgets"
  /\ idx <= Len(configs)
  /\ LET config == configs[idx]
         quotaCodes == getQuotaCodes(config.modelConfig, config.endpointType)
         modelFamily == getModelFamily(config.modelConfig.modelId)
     IN IF quotaCodes.tag # "object"
        THEN /\ modelsWithMissingQuotas' =
                  Append(modelsWithMissingQuotas,
                         config.modelConfig.modelId \o " (" \o config.endpointType \o ")")
             /\ UNCHANGED <<widgets, currentFamily>>
        ELSE /\ currentFamily' = modelFamily
             /\ widgets' = Append(widgets, <<TextWidget(modelFamily)>>) \o <<GraphRow(config)>>
             /\ UNCHANGED modelsWithMissingQuotas
  /\ idx' = idx + 1
  /\ UNCHANGED <<pc, configs, thrown, constructs, eventBridgeModels, customResourceModels>>

\* one iteration of dashboardConfigs.forEach
AddEntryWidgets ==
  /\ pc = "widgets"
  /\ idx <= Len(configs)
  /\ LET config == configs[idx]
         quotaCodes == getQuotaCodes(config.modelConfig, config.endpointType)
         modelFamily == getModelFamily(config.modelConfig.modelId)
     IN IF quotaCodes.tag # "object"
        THEN /\ modelsWithMissingQuotas' =
                  Append(modelsWithMissingQuotas,
                         config.modelConfig.modelId \o " (" \o config.endpointType \o ")")
             /\ UNCHANGED <<widgets, currentFamily>>
        ELSE /\ currentFamily' = modelFamily
             /\ widgets' = (IF modelFamily # currentFamily
                            THEN Append(widgets, <<TextWidget(modelFamily)>>)
                            ELSE widgets) \o <<GraphRow(config)>>
             /\ UNCHANGED modelsWithMissingQuotas
  /\ idx' = idx + 1
  /\ UNCHANGED <<pc, configs, thrown, constructs, eventBridgeModels, customResourceModels>>

\* the counts of the summary log
totalConfigured == Len(configs)
totalSkipped == Len(modelsWithMissingQuotas)
totalCreated == totalConfigured - totalSkipped

\* the summary log, the two CfnOutputs and the nag suppressions
Finish ==
  /\ pc = "widgets"
  /\ idx > Len(configs)
  /\ constructs' = constructs \o <<"DashboardURL", "DashboardName">>
  /\ pc' = "done"
  /\ UNCHANGED <<configs, thrown, eventBridgeModels, customResourceModels,
                 widgets, currentFamily, modelsWithMissingQuotas, idx>>



----------------------------------------------------------------------------
(* The series of an entry for any list of application profile ids *)

\* application profile ids an entry may list
MaxProfiles == 3

\* a rate-1 and a rate-5 entry with every list of up to MaxProfiles ids
\* drawn from two profile ids and the full model id of the first entry: the
\* empty list, lists with a repeated id and lists that repeat the primary
\* identity among them
AggregateEntries ==
  {Config(e[1], e[2], ids) :
     e \in {<<Model("NOVA_2_LITE_V1"), "cross-region">>,
            <<Model("CLAUDE_SONNET_4_5"), "global-cross-region">>},
     ids \in SeqsUpTo({"grjihoh0los8", "cypje2y15yrd",
                       "us.amazon.nova-2-lite-v1:0"}, MaxProfiles)}

AggregateInit ==
  /\ entry \in AggregateEntries
  /\ panel = <<>>
  /\ now = 0
  /\ started = 0
  /\ inflight = EmptyBag
  /\ store = <<>>

\* the loop body builds the three series of the entry
BuildPanel ==
  /\ panel = <<>>
  /\ panel' = Panel(entry)
  /\ UNCHANGED <<entry, now, started, inflight, store>>

----------------------------------------------------------------------------
(* Deployment of the stack and the two triggers of the fetcher *)

\* the rule with a rate of one minute
dailyRefreshRule_rateOneMinute ==
  [id |-> "DailyQuotaRefresh", schedule |-> [rate |-> 1, unit |-> "minutes"],
   description |-> "Refresh Bedrock quota values every 2.9 hours"]

\* new events.Rule(this, 'DailyQuotaRefresh', { schedule: rate(minutes(174)), ... })
dailyRefreshRule ==
  [id |-> "DailyQuotaRefresh", schedule |-> [rate |-> 174, unit |-> "minutes"],
   description |-> "Refresh Bedrock quota values every 2.9 hours"]

\* the minutes between two firings of the rule
RefreshIntervalMinutes == dailyRefreshRule.schedule.rate

\* the minutes within which a deployment creates its resources, and the
\* minutes and invocations a run is followed for
MaxDeployMinutes == 10
MaxClock == 370
MaxInvocations == 3

\* the resources the constructor declares
Resources ==
  {"QuotaFetcher", "QuotaProvider", "DailyQuotaRefresh", "BedrockQuotaDashboard",
   "InitialQuotaFetch"}

\* what a resource refers to and so is created after: the provider its
\* onEventHandler, the rule its target function, the custom resource its
\* service token
DependsOn(resource) ==
  CASE resource = "QuotaProvider" -> {"QuotaFetcher"}
    [] resource = "DailyQuotaRefresh" -> {"QuotaFetcher"}
    [] resource = "InitialQuotaFetch" -> {"QuotaProvider"}
    [] OTHER -> {}

\* the target's event without the tuple list
ScheduledEvent_noModels(models) == [source |-> "aws.events", models |-> <<>>]

\* the event the schedule rule's target passes to the function
ScheduledEvent(models) == [source |-> "aws.events", models |-> models]

\* the event the provider passes on creating the custom resource
CreateEvent(models) == [source |-> "InitialQuotaFetch", models |-> models]

DeployInit ==
  /\ deployed = {}
  /\ clock = 0
  /\ nextFire = 0
  /\ invocations = <<>>

\* the deployment creates one resource whose dependencies exist; creating the
\* rule starts its schedule, creating the custom resource invokes the fetcher
CreateResource(resource) ==
  /\ resource \in Resources \ deployed
  /\ DependsOn(resource) \subseteq deployed
  /\ deployed' = deployed \cup {resource}
  /\ nextFire' = IF resource = "DailyQuotaRefresh"
                 THEN clock + RefreshIntervalMinutes ELSE nextFire
  /\ invocations' = IF resource = "InitialQuotaFetch"
                    THEN Append(invocations,
                                [event |-> CreateEvent(CustomResourceModels(allDashboardConfigs)),
                                 at |-> clock])
                    ELSE invocations
  /\ UNCHANGED clock

Deploy == \E resource \in Resources : CreateResource(resource)

\* the schedule rule fires and its target invokes the fetcher
TimerFires ==
  /\ "DailyQuotaRefresh" \in deployed
  /\ clock = nextFire
  /\ Len(invocations) < MaxInvocations
  /\ invocations' = Append(invocations,
                           [event |-> ScheduledEvent(EventBridgeModels(allDashboardConfigs)),
                            at |-> clock])
  /\ nextFire' = clock + RefreshIntervalMinutes
  /\ UNCHANGED <<deployed, clock>>

\* a minute passes: never past a firing that is due, and a deployment still
\* under way ends within its limit
MinutePasses ==
  /\ clock < MaxClock
  /\ "DailyQuotaRefresh" \in deployed => clock < nextFire
  /\ deployed # Resources => clock < MaxDeployMinutes
  /\ clock' = clock + 1
  /\ UNCHANGED <<deployed, nextFire, invocations>>

DeployIdle ==
  /\ deployed = {} /\ clock = 0 /\ nextFire = 0 /\ invocations = <<>>

----------------------------------------------------------------------------
(* The quota fetcher: refresh over the tuple list of an invocation *)

\* failures of the limits service a run goes through
MaxOutages == 1

\* the entries whose tuples the two triggers carry: two with both codes,
\* one with a request code only, one without a pair (left out of the list)
FetcherConfigs ==
  << allDashboardConfigs[1],
     Config(Model("NOVA_CANVAS_V1"), "regional", <<>>),
     Config(FIXTURE_NO_CODES, "regional", <<>>),
     allDashboardConfigs[3] >>

\* the tuple lists the two triggers carry for these entries
ScheduledTuples == EventBridgeModels(FetcherConfigs)
InitialTuples == CustomResourceModels(FetcherConfigs)

\* the queries of a tuple list: one per tuple and defined identifier
Queries(models) ==
  {<<i, "TokenQuota">> : i \in {j \in 1..Len(models) : TruthyStr(models[j].tokenQuotaCode)}}
  \cup {<<i, "RequestQuota">> : i \in {j \in 1..Len(models) : TruthyStr(models[j].requestQuotaCode)}}

\* the identifier a query asks the limits service about
CodeOf(models, q) ==
  IF q[2] = "TokenQuota" THEN models[q[1]].tokenQuotaCode
  ELSE models[q[1]].requestQuotaCode

\* the limits service: the current value of an identifier
ServiceQuotaValue(code) ==
  LET models == ScheduledTuples
      q == CHOOSE r \in Queries(models) : CodeOf(models, r) = code
  IN 1000 * q[1] + (IF q[2] = "TokenQuota" THEN 500 ELSE 0)

\* the ways a query fails
FailureKinds ==
  {"ServiceException", "NoSuchResourceException", "TooManyRequestsException"}

\* the limit point of a query: metric name, ModelId dimension, value
LimitPoint(models, q, value) ==
  [metricName |-> q[2], modelId |-> models[q[1]].modelId, value |-> value]

\* refresh(modelList) begins: every defined identifier is queried
StartRefresh(event) ==
  [phase |-> "running", source |-> event.source, models |-> event.models,
   pending |-> Queries(event.models), publishedNow |-> {}, loggedNow |-> {}]

\* a failed query ends the refresh: the queries still pending are dropped
OnResponse_abortsBatch(f, q, outcome) ==
  IF outcome = "ok"
  THEN [f EXCEPT !.pending = @ \ {q}, !.publishedNow = @ \cup {q}]
  ELSE [f EXCEPT !.pending = {}, !.loggedNow = @ \cup {q}]

\* the answer to one query: publish its point, or report its failure
OnResponse(f, q, outcome) ==
  IF outcome = "ok"
  THEN [f EXCEPT !.pending = @ \ {q}, !.publishedNow = @ \cup {q}]
  ELSE [f EXCEPT !.pending = @ \ {q}, !.loggedNow = @ \cup {q}]

FetcherInit ==
  /\ fetcher = [phase |-> "idle", source |-> "none", models |-> <<>>,
                pending |-> {}, publishedNow |-> {}, loggedNow |-> {}]
  /\ points = {}
  /\ asked = [q \in Queries(ScheduledTuples) |-> <<>>]
  /\ log = {}
  /\ outage = {}
  /\ outages = 0

\* an invocation: the initial fetch first, the schedule rule's from then on
Invoke ==
  /\ fetcher.phase = "idle"
  /\ fetcher' = IF fetcher.source = "none"
                THEN StartRefresh(CreateEvent(InitialTuples))
                ELSE StartRefresh(ScheduledEvent(ScheduledTuples))
  /\ asked' = [q \in DOMAIN asked |-> <<>>]
  /\ UNCHANGED <<points, log, outage, outages>>

\* the limits service answers one pending query, in any order
QueryCompletes(q) ==
  /\ fetcher.phase = "running"
  /\ q \in fetcher.pending
  /\ LET code == CodeOf(fetcher.models, q)
     IN \E outcome \in (IF code \in outage THEN FailureKinds ELSE {"ok"}) :
          /\ fetcher' = OnResponse(fetcher, q, outcome)
          /\ points' = IF q \in fetcher'.publishedNow
                       THEN points \cup {LimitPoint(fetcher.models, q, ServiceQuotaValue(code))}
                       ELSE points
          /\ log' = log \cup fetcher'.loggedNow
          /\ asked' = [asked EXCEPT ![q] = Append(@, outcome)]
  /\ UNCHANGED <<outage, outages>>

Answer == \E q \in DOMAIN asked : QueryCompletes(q)

\* every query has completed: the refresh is done
FinishRefresh ==
  /\ fetcher.phase = "running"
  /\ fetcher.pending = {}
  /\ fetcher' = [fetcher EXCEPT !.phase = "idle"]
  /\ UNCHANGED <<points, asked, log, outage, outages>>

\* the limits service starts failing for an identifier
Break ==
  /\ outages < MaxOutages
  /\ \E q \in DOMAIN asked :
       LET code == CodeOf(ScheduledTuples, q)
       IN /\ code \notin outage
          /\ outage' = outage \cup {code}
  /\ outages' = outages + 1
  /\ UNCHANGED <<fetcher, points, asked, log>>

\* the limits service answers for an identifier again
Heal ==
  /\ \E code \in outage : outage' = outage \ {code}
  /\ UNCHANGED <<fetcher, points, asked, log, outages>>

FetcherIdle ==
  /\ fetcher = [phase |-> "idle", source |-> "none", models |-> <<>>,
                pending |-> {}, publishedNow |-> {}, loggedNow |-> {}]
  /\ points = {} /\ asked = <<>> /\ log = {} /\ outage = {} /\ outages = 0

----------------------------------------------------------------------------
(* getAllBedrockQuotas: the paginated listing of the limits service *)

\* pages the service may hold and requests a run is followed for
MaxPages == 2
MaxSends == 3

\* the NextToken that leads to page k
Token(k) == "token-" \o ToString(k)

\* what a page may carry for Quotas: no Quotas field, an empty list, or the
\* quotas of the page
QuotasOf(k) ==
  { [present |-> FALSE, items |-> <<>>],
    [present |-> TRUE, items |-> <<>>],
    [present |-> TRUE, items |-> <<[QuotaCode |-> "L-PAGE" \o ToString(k)]>>] }

\* the listings of n pages, built up to page k: each page with its quotas
\* and with or without a NextToken, which names any page of the listing
RECURSIVE ListingsUpTo(_, _)
ListingsUpTo(k, n) ==
  IF k = 0 THEN {<<>>}
  ELSE {Append(listing, page) :
          listing \in ListingsUpTo(k - 1, n),
          page \in [Quotas : QuotasOf(k),
                    NextToken : {Undefined} \cup {Token(j) : j \in 1..n}]}

\* the listings a service may hold
Listings == UNION {ListingsUpTo(n, n) : n \in 1..MaxPages}

\* ListServiceQuotasCommand: the page a request's NextToken names
ListServiceQuotas(listing, token) ==
  IF token = Undefined THEN listing[1]
  ELSE listing[CHOOSE k \in 1..Len(listing) : Token(k) = token]

\* the loop body keeping the quotas of the last page only
LoopBody_keepsLastPage(quotas, response) ==
  [allQuotas |-> IF response.Quotas.present THEN response.Quotas.items ELSE quotas,
   nextToken |-> response.NextToken]

\* the loop body after the response: concat the page, take over its token
LoopBody(quotas, response) ==
  [allQuotas |-> IF response.Quotas.present THEN quotas \o response.Quotas.items ELSE quotas,
   nextToken |-> response.NextToken]

ListingInit ==
  /\ pages \in Listings
  /\ lpc = "do"
  /\ nextToken = Undefined
  /\ allQuotas = <<>>
  /\ received = <<>>

\* one iteration of do { ... } while (nextToken): the request succeeds
ListPage ==
  /\ lpc = "do"
  /\ Len(received) < MaxSends
  /\ LET response == ListServiceQuotas(pages, nextToken)
         after == LoopBody(allQuotas, response)
     IN /\ allQuotas' = after.allQuotas
        /\ nextToken' = after.nextToken
        /\ lpc' = IF TruthyStr(after.nextToken) THEN "do" ELSE "listed"
        /\ received' = Append(received, response)
  /\ UNCHANGED pages

\* client.send throws: the catch block reports and the function returns
ListPageFails ==
  /\ lpc = "do"
  /\ Len(received) < MaxSends
  /\ lpc' = "caught"
  /\ UNCHANGED <<pages, nextToken, allQuotas, received>>

ListingIdle ==
  /\ pages = <<>> /\ lpc = "idle" /\ nextToken = Undefined
  /\ allQuotas = <<>> /\ received = <<>>

----------------------------------------------------------------------------
(* The limit lines of an entry and the limit points published to them *)

\* buckets of the time window, limit values, and points published in a run
MaxLimitBucket == 3
MaxLimitValue == 2
MaxReadings == 3

\* entries whose limit lines are read: one with both identifiers, one with
\* a request identifier only
LimitEntries ==
  {allDashboardConfigs[1], Config(Model("NOVA_CANVAS_V1"), "regional", <<>>)}

\* the dashboard row of the entry over a store that holds no limit point yet
LimitInit ==
  /\ entry \in LimitEntries
  /\ panel = GraphRow(entry)
  /\ now = 1
  /\ started = 0
  /\ inflight = EmptyBag
  /\ store = [s \in {<<"Bedrock/Quotas", metricName,
                       getFullModelId(entry.modelConfig, entry.endpointType)>> :
                       metricName \in {"TokenQuota", "RequestQuota"}} |->
                [b \in 1..MaxLimitBucket |-> NoSamples]]

\* the fetcher publishes a limit point with the current timestamp
PublishLimit(point) ==
  /\ store' = Publish(store, <<"Bedrock/Quotas", point.metricName, point.modelId>>,
                      now, point.value)
  /\ UNCHANGED <<entry, panel, now, started, inflight>>

\* a refresh reads the current value of one identifier of the entry's tuple
RefreshLimit ==
  /\ Cardinality({t \in (DOMAIN store) \X (1..MaxLimitBucket) \X (1..MaxReadings) :
                    t[3] <= store[t[1]][t[2]].n}) < MaxReadings
  /\ LET models == EventBridgeModels(<<entry>>)
     IN \E q \in Queries(models), value \in 1..MaxLimitValue :
          PublishLimit(LimitPoint(models, q, value))

\* the next one-minute bucket of the window begins
LimitTick ==
  /\ now < MaxLimitBucket
  /\ now' = now + 1
  /\ UNCHANGED <<entry, panel, started, inflight, store>>

LaterIdle == DeployIdle /\ FetcherIdle /\ ListingIdle

----------------------------------------------------------------------------
(* Specifications *)

BuildIdle ==
  /\ pc = "idle" /\ configs = <<>> /\ thrown = [type |-> "none", errors |-> <<>>]
  /\ constructs = <<>> /\ eventBridgeModels = <<>> /\ customResourceModels = <<>>
  /\ widgets = <<>> /\ currentFamily = "null" /\ modelsWithMissingQuotas = <<>>
  /\ idx = 0

EstimatorIdle ==
  /\ entry = Config(UndefinedModel, "regional", <<>>)
  /\ panel = <<>>
  /\ now = 0 /\ started = 0 /\ inflight = EmptyBag /\ store = <<>>

RegistryIdle ==
  probe = [model |-> UndefinedModel, endpointType |-> "regional",
           supports |-> <<>>, codes |-> <<>>, supported |-> <<>>,
           tokenCode |-> <<>>, requestCode |-> <<>>, created |-> <<>>,
           threw |-> {}]

InitRegistry == RegistryInit /\ BuildIdle /\ EstimatorIdle /\ LaterIdle

NextRegistry ==
  \/ CallValidateModelEndpointSupport /\ UNCHANGED <<buildVars, estimatorVars, laterVars>>
  \/ CallGetQuotaCodes /\ UNCHANGED <<buildVars, estimatorVars, laterVars>>
  \/ CallGetSupportedEndpointTypes /\ UNCHANGED <<buildVars, estimatorVars, laterVars>>
  \/ CallGetTokenQuotaCode /\ UNCHANGED <<buildVars, estimatorVars, laterVars>>
  \/ CallGetRequestQuotaCode /\ UNCHANGED <<buildVars, estimatorVars, laterVars>>
  \/ CallCreateModelConfig /\ UNCHANGED <<buildVars, estimatorVars, laterVars>>

SpecRegistry == InitRegistry /\ [][NextRegistry]_vars

InitBuild == BuildInit /\ RegistryIdle /\ EstimatorIdle /\ LaterIdle

NextBuild ==
  \/ Validate /\ UNCHANGED <<registryVars, estimatorVars, laterVars>>
  \/ CreateQuotaFetcher /\ UNCHANGED <<registryVars, estimatorVars, laterVars>>
  \/ CreateQuotaProvider /\ UNCHANGED <<registryVars, estimatorVars, laterVars>>
  \/ CreateDailyRefreshRule /\ UNCHANGED <<registryVars, estimatorVars, laterVars>>
  \/ AddRuleTarget /\ UNCHANGED <<registryVars, estimatorVars, laterVars>>
  \/ CreateDashboard /\ UNCHANGED <<registryVars, estimatorVars, laterVars>>
  \/ CreateInitialQuotaFetch /\ UNCHANGED <<registryVars, estimatorVars, laterVars>>
  \/ AddEntryWidgets /\ UNCHANGED <<registryVars, estimatorVars, laterVars>>
  \/ Finish /\ UNCHANGED <<registryVars, estimatorVars, laterVars>>

SpecBuild == InitBuild /\ [][NextBuild]_vars

InitEstimator == EstimatorInit /\ RegistryIdle /\ BuildIdle /\ LaterIdle

NextEstimator ==
  \/ Start /\ UNCHANGED <<registryVars, buildVars, laterVars>>
  \/ Complete /\ UNCHANGED <<registryVars, buildVars, laterVars>>
  \/ Tick /\ UNCHANGED <<registryVars, buildVars, laterVars>>

SpecEstimator == InitEstimator /\ [][NextEstimator]_vars

InitDeploy == DeployInit /\ RegistryIdle /\ BuildIdle /\ EstimatorIdle /\ FetcherIdle /\ ListingIdle

NextDeploy ==
  \/ Deploy /\ UNCHANGED <<registryVars, buildVars, estimatorVars, fetcherVars, listingVars>>
  \/ TimerFires /\ UNCHANGED <<registryVars, buildVars, estimatorVars, fetcherVars, listingVars>>
  \/ MinutePasses /\ UNCHANGED <<registryVars, buildVars, estimatorVars, fetcherVars, listingVars>>

SpecDeploy == InitDeploy /\ [][NextDeploy]_vars

InitFetcher == FetcherInit /\ RegistryIdle /\ BuildIdle /\ EstimatorIdle /\ DeployIdle /\ ListingIdle

NextFetcher ==
  \/ Invoke /\ UNCHANGED <<registryVars, buildVars, estimatorVars, deployVars, listingVars>>
  \/ Answer /\ UNCHANGED <<registryVars, buildVars, estimatorVars, deployVars, listingVars>>
  \/ FinishRefresh /\ UNCHANGED <<registryVars, buildVars, estimatorVars, deployVars, listingVars>>
  \/ Break /\ UNCHANGED <<registryVars, buildVars, estimatorVars, deployVars, listingVars>>
  \/ Heal /\ UNCHANGED <<registryVars, buildVars, estimatorVars, deployVars, listingVars>>

SpecFetcher == InitFetcher /\ [][NextFetcher]_vars

\* the rule keeps firing and an invocation runs to its end
FairFetcher ==
  /\ WF_vars(Invoke /\ UNCHANGED <<registryVars, buildVars, estimatorVars, deployVars, listingVars>>)
  /\ WF_vars(Answer /\ UNCHANGED <<registryVars, buildVars, estimatorVars, deployVars, listingVars>>)
  /\ WF_vars(FinishRefresh /\ UNCHANGED <<registryVars, buildVars, estimatorVars, deployVars, listingVars>>)

SpecFetcherFair == SpecFetcher /\ FairFetcher

InitListing ==
  ListingInit /\ RegistryIdle /\ BuildIdle /\ EstimatorIdle /\ DeployIdle /\ FetcherIdle

NextListing ==
  \/ ListPage /\ UNCHANGED <<registryVars, buildVars, estimatorVars, deployVars, fetcherVars>>
  \/ ListPageFails /\ UNCHANGED <<registryVars, buildVars, estimatorVars, deployVars, fetcherVars>>

SpecListing == InitListing /\ [][NextListing]_vars

\* an awaited request comes back, with a page or with an error
SpecListingFair == SpecListing /\ WF_vars(NextListing)

InitLimit == LimitInit /\ RegistryIdle /\ BuildIdle /\ LaterIdle

NextLimit ==
  \/ RefreshLimit /\ UNCHANGED <<registryVars, buildVars, laterVars>>
  \/ LimitTick /\ UNCHANGED <<registryVars, buildVars, laterVars>>

SpecLimit == InitLimit /\ [][NextLimit]_vars

InitAggregate == AggregateInit /\ RegistryIdle /\ BuildIdle /\ LaterIdle

NextAggregate == BuildPanel /\ UNCHANGED <<registryVars, buildVars, laterVars>>

SpecAggregate == InitAggregate /\ [][NextAggregate]_vars

\* A descriptor from the module load that creates it to the end of the
\* constructor that reads it, with the helpers called on it in between.
LifecycleModels ==
  {Model("NOVA_2_LITE_V1"), Model("NOVA_CANVAS_V1"), Model("NOVA_PREMIER_V1"),
   FIXTURE_NO_ENDPOINTS, FIXTURE_NO_CODES, FIXTURE_EMPTY_PAIR}

InitLifecycle ==
  /\ probe \in [model : LifecycleModels, endpointType : EndpointTypes,
                supports : {<<>>}, codes : {<<>>}, supported : {<<>>},
                tokenCode : {<<>>}, requestCode : {<<>>}, created : {<<>>},
                threw : {{}}]
  /\ configs = <<Config(probe.model, probe.endpointType, <<>>)>>
  /\ pc = "validate"
  /\ thrown = NoError
  /\ constructs = <<>>
  /\ eventBridgeModels = <<>>
  /\ customResourceModels = <<>>
  /\ widgets = <<>>
  /\ currentFamily = "null"
  /\ modelsWithMissingQuotas = <<>>
  /\ idx = 0
  /\ EstimatorIdle
  /\ LaterIdle

\* the table entry exists once createModelConfig has returned it
Loaded == probe.created # <<>>

\* the module load: the entry list refers to the object createModelConfig returned
LoadRegistry ==
  /\ CallCreateModelConfig
  /\ configs' = [i \in 1..Len(configs) |->
                   [configs[i] EXCEPT !.modelConfig = probe'.model]]
  /\ UNCHANGED <<pc, thrown, constructs, eventBridgeModels, customResourceModels,
                 widgets, currentFamily, modelsWithMissingQuotas, idx>>
  /\ UNCHANGED <<estimatorVars, laterVars>>

NextLifecycle ==
  \/ LoadRegistry
  \/ Loaded /\ CallValidateModelEndpointSupport /\ UNCHANGED <<buildVars, estimatorVars, laterVars>>
  \/ Loaded /\ CallGetQuotaCodes /\ UNCHANGED <<buildVars, estimatorVars, laterVars>>
  \/ Loaded /\ CallGetSupportedEndpointTypes /\ UNCHANGED <<buildVars, estimatorVars, laterVars>>
  \/ Loaded /\ CallGetTokenQuotaCode /\ UNCHANGED <<buildVars, estimatorVars, laterVars>>
  \/ Loaded /\ CallGetRequestQuotaCode /\ UNCHANGED <<buildVars, estimatorVars, laterVars>>
  \/ Loaded /\ Validate /\ UNCHANGED <<registryVars, estimatorVars, laterVars>>
  \/ Loaded /\ CreateQuotaFetcher /\ UNCHANGED <<registryVars, estimatorVars, laterVars>>
  \/ Loaded /\ CreateQuotaProvider /\ UNCHANGED <<registryVars, estimatorVars, laterVars>>
  \/ Loaded /\ CreateDailyRefreshRule /\ UNCHANGED <<registryVars, estimatorVars, laterVars>>
  \/ Loaded /\ AddRuleTarget /\ UNCHANGED <<registryVars, estimatorVars, laterVars>>
  \/ Loaded /\ CreateDashboard /\ UNCHANGED <<registryVars, estimatorVars, laterVars>>
  \/ Loaded /\ CreateInitialQuotaFetch /\ UNCHANGED <<registryVars, estimatorVars, laterVars>>
  \/ Loaded /\ AddEntryWidgets /\ UNCHANGED <<registryVars, estimatorVars, laterVars>>
  \/ Loaded /\ Finish /\ UNCHANGED <<registryVars, estimatorVars, laterVars>>

SpecLifecycle == InitLifecycle /\ [][NextLifecycle]_vars

----------------------------------------------------------------------------
(* Registry properties *)

\* C10: for every descriptor of a region table and every endpoint kind,
\* validateModelEndpointSupport is true exactly when getQuotaCodes returns a
\* pair (not null) in which at least one of the two codes is present.
RegistrySelfConsistent ==
  (probe.model \in RegionTableModels /\ probe.supports # <<>> /\ probe.codes # <<>>) =>
    (probe.supports[1] <=>
       /\ probe.codes[1].tag = "object"
       /\ \/ TruthyStr(probe.codes[1].tokenQuotaCode)
          \/ TruthyStr(probe.codes[1].requestQuotaCode))

\* a table descriptor with only a request code, found supported and looked up
RegistrySelfConsistentWitness ==
  /\ probe.model \in RegionTableModels
  /\ probe.supports = <<TRUE>>
  /\ probe.codes # <<>>
  /\ probe.codes[1].tag = "object"
  /\ ~TruthyStr(probe.codes[1].tokenQuotaCode)
  /\ TruthyStr(probe.codes[1].requestQuotaCode)

\* the endpoint property of a descriptor, read by its name
EndpointProperty(modelConfig, endpointType) ==
  IF endpointType = "regional" THEN modelConfig.regional
  ELSE IF endpointType = "cross-region" THEN modelConfig.crossRegion
  ELSE modelConfig.globalCrossRegion

\* the positions of the supported list whose endpoint kind has a pair
WithPair(modelConfig) ==
  {i \in 1..Len(modelConfig.supportedEndpoints) :
     EndpointProperty(modelConfig, modelConfig.supportedEndpoints[i]).tag = "object"}

\* a pair with both codes
HasBothCodes(pair) == TruthyStr(pair.tokenQuotaCode) /\ TruthyStr(pair.requestQuotaCode)

\* C11: getQuotaCodes never throws: whatever the descriptor argument (a
\* descriptor, or the undefined of a model the registry does not have) and
\* whatever the endpoint kind, a call returns a pair or null.
GetQuotaCodesNeverThrows ==
  /\ "getQuotaCodes" \notin probe.threw
  /\ probe.codes # <<>> => probe.codes[1].tag \in {"object", "null"}

\* C12: a descriptor that lists a supported endpoint kind with no pair, or
\* with a pair holding neither code, does not come out of createModelConfig
\* silently: the call logs at least one warning.
AbsentCodesNotSilent ==
  probe.created # <<>> =>
    LET config == probe.created[1].config
    IN (\E i \in 1..Len(config.supportedEndpoints) :
          LET pair == EndpointProperty(config, config.supportedEndpoints[i])
          IN pair.tag # "object"
             \/ (~TruthyStr(pair.tokenQuotaCode) /\ ~TruthyStr(pair.requestQuotaCode)))
         => Len(probe.created[1].warnings) > 0

\* C13: createModelConfig never fails on a descriptor and returns it; it logs
\* one warning, naming the model, for every supported endpoint kind whose
\* pair lacks the token code or the request code, and none for a pair that
\* has both.
OneWarningPerIncompletePair ==
  /\ probe.model.tag = "object" => "createModelConfig" \notin probe.threw
  /\ probe.created # <<>> =>
       LET config == probe.created[1].config
           warnings == probe.created[1].warnings
           incomplete == {i \in WithPair(config) :
                            ~HasBothCodes(EndpointProperty(config, config.supportedEndpoints[i]))}
       IN /\ probe.created[1].returned = config
          /\ Len(warnings) = Cardinality(incomplete)
          /\ \A k \in 1..Len(warnings) :
               StartsWith(warnings[k], "[Quota Config Warning] Model " \o config.modelId \o ": ")

\* a descriptor with a request code only came back with its one warning
OneWarningPerIncompletePairWitness ==
  /\ probe.created # <<>>
  /\ probe.created[1].config.key = "NOVA_CANVAS_V1"
  /\ probe.created[1].returned = probe.created[1].config
  /\ Len(probe.created[1].warnings) = 1
  /\ StartsWith(probe.created[1].warnings[1],
                "[Quota Config Warning] Model amazon.nova-canvas-v1:0: Missing tokenQuotaCode.")

\* C14: descriptors are immutable: no step of createModelConfig, of the five
\* lookup helpers, of validateAllDashboardConfigs or of the dashboard build
\* changes a field of the descriptor it is given, neither as the table holds
\* it nor as the entry list refers to it.
DescriptorsImmutable ==
  [][probe'.model = probe.model /\ configs' = configs]_vars

\* a descriptor that was created, read by every helper and built into a
\* finished dashboard is still the config createModelConfig was given
DescriptorsImmutableWitness ==
  /\ pc = "done"
  /\ probe.created # <<>>
  /\ probe.supports # <<>> /\ probe.codes # <<>> /\ probe.supported # <<>>
  /\ probe.tokenCode # <<>> /\ probe.requestCode # <<>>
  /\ Len(widgets) > 0
  /\ configs[1].modelConfig = probe.created[1].config

----------------------------------------------------------------------------
(* Estimator properties *)

\* the samples of one counter of one identity in one bucket
Samples(namespace, metricName, id, b) == store[<<namespace, metricName, id>>][b]
HasInput(id, b) == Samples("AWS/Bedrock", "InputTokenCount", id, b).n > 0
HasCacheWrite(id, b) == Samples("AWS/Bedrock", "CacheWriteInputTokenCount", id, b).n > 0
HasOutput(id, b) == Samples("AWS/Bedrock", "OutputTokenCount", id, b).n > 0
HasMaxTokens(id, b) == Samples("Bedrock/Quotas", "MaxTokens", id, b).n > 0
InputTokens(id, b) == Samples("AWS/Bedrock", "InputTokenCount", id, b).sum
CacheWriteTokens(id, b) == Samples("AWS/Bedrock", "CacheWriteInputTokenCount", id, b).sum
OutputTokens(id, b) == Samples("AWS/Bedrock", "OutputTokenCount", id, b).sum
MaxTokens(id, b) == Samples("Bedrock/Quotas", "MaxTokens", id, b).sum

\* the identities of the entry: the primary, then the auxiliary profile ids
Identities == <<getFullModelId(entry.modelConfig, entry.endpointType)>> \o entry.applicationProfileIds
BurndownRate == entry.modelConfig.outputTokenBurndownRate

\* sum of f(identity) over the N+1 identities, each position counted once
SumOverIdentities(f(_)) ==
  LET S[i \in 0..Len(Identities)] == IF i = 0 THEN 0 ELSE S[i - 1] + f(Identities[i])
  IN S[Len(Identities)]

ActualNow(b) == SeriesValue(panel.actualConsumption, store, b)
InitialNow(b) == SeriesValue(panel.initialReservation, store, b)

\* C1: for an entry with no auxiliary profile ids, Actual Consumption of a
\* bucket is InputTokens + CacheWriteTokens + OutputTokens * burndownRate of
\* the primary identity, wherever the three counters have a data point.
ActualConsumptionSingle ==
  Len(entry.applicationProfileIds) = 0 =>
    \A b \in Buckets :
      LET id == Identities[1]
      IN (HasInput(id, b) /\ HasCacheWrite(id, b) /\ HasOutput(id, b)) =>
           /\ ActualNow(b).present
           /\ ActualNow(b).value =
                InputTokens(id, b) + CacheWriteTokens(id, b) + OutputTokens(id, b) * BurndownRate

\* a rate-5 entry without auxiliary ids whose bucket holds output tokens
ActualConsumptionSingleWitness ==
  /\ Len(entry.applicationProfileIds) = 0
  /\ BurndownRate = 5
  /\ \E b \in Buckets :
       /\ ActualNow(b).present
       /\ OutputTokens(Identities[1], b) = 1
       /\ InputTokens(Identities[1], b) = 2
       /\ CacheWriteTokens(Identities[1], b) = 0
       /\ ActualNow(b).value = 7

InitialReservationFallsBack ==
  \A b \in Buckets :
    LET Term(id) == InputTokens(id, b) + CacheWriteTokens(id, b)
    IN (\A i \in 1..Len(Identities) :
          HasInput(Identities[i], b) /\ HasCacheWrite(Identities[i], b)
            /\ ~HasMaxTokens(Identities[i], b))
         => /\ InitialNow(b).present
            /\ InitialNow(b).value = SumOverIdentities(Term)

\* every request started so far published its max_tokens
EveryCallerInstrumented ==
  LET Published(id) ==
        LET P[b \in 0..MaxBucket] ==
              IF b = 0 THEN 0 ELSE P[b - 1] + Samples("Bedrock/Quotas", "MaxTokens", id, b).n
        IN P[MaxBucket]
  IN SumOverIdentities(Published) = started

\* C6: at burndown rate 1, with every caller publishing its max_tokens and
\* no output beyond it, in every bucket where both series have a value
\* Actual Consumption is at most Initial Reservation.
ActualAtMostInitialAtRate1 ==
  (BurndownRate = 1 /\ EveryCallerInstrumented) =>
    \A b \in Buckets :
      (ActualNow(b).present /\ InitialNow(b).present) =>
        ActualNow(b).value <= InitialNow(b).value


----------------------------------------------------------------------------
(* Build properties *)

\* the metrics a dashboard series reads
MetricsOf(series) ==
  IF series.tag = "Metric" THEN {series}
  ELSE {series.usingMetrics[k] : k \in DOMAIN series.usingMetrics}

\* the consumption series of the graphs added so far (the first series of
\* every graph; the second is the quota line)
ConsumptionSeries ==
  UNION {{widgets[r][w].left[1] :
            w \in {v \in 1..Len(widgets[r]) : widgets[r][v].kind = "GraphWidget"}} :
         r \in 1..Len(widgets)}

\* C5: every summand of the Initial Reservation, Actual Consumption and
\* Request Rate series of every entry is read with statistic Sum over one
\* minute, and every formula is evaluated over one minute.
SummandsUseSumPerMinute ==
  \A series \in ConsumptionSeries :
    /\ series.period = Minutes(1)
    /\ \A metric \in MetricsOf(series) :
         metric.statistic = "Sum" /\ metric.period = Minutes(1)

\* an aggregated entry's row is on the dashboard: its formulas read the five
\* counters of three identities
SummandsUseSumPerMinuteWitness ==
  \E series \in ConsumptionSeries :
    /\ series.tag = "MathExpression"
    /\ Cardinality(MetricsOf(series)) = 15
    /\ \E metric \in MetricsOf(series) : metric.metricName = "MaxTokens"

\* entries that name an endpoint kind outside their descriptor's supported set
Violating ==
  {i \in 1..Len(configs) :
     /\ configs[i].modelConfig.tag = "object"
     /\ configs[i].endpointType \notin Range(configs[i].modelConfig.supportedEndpoints)}

\* entries whose descriptor the active table does not have
AbsentModel == {i \in 1..Len(configs) : configs[i].modelConfig.tag = "undefined"}

\* C7: once validation has run: with no invalid entry nothing is raised; with
\* entries naming an unsupported endpoint kind, one Error is raised whose
\* lines name exactly those entries, in declaration order, each with its
\* index and model id and, where the line gives them, the requested endpoint
\* kind and the supported kinds.
AggregatedErrorNamesEveryViolation ==
  pc # "validate" =>
    /\ (Violating = {} /\ AbsentModel = {}) => thrown.type = "none"
    /\ Violating # {} =>
         /\ thrown.type = "Error"
         /\ {thrown.errors[k].index + 1 : k \in 1..Len(thrown.errors)} = Violating
         /\ Len(thrown.errors) = Cardinality(Violating)
         /\ \A k \in 1..Len(thrown.errors) :
              LET line == thrown.errors[k]
                  config == configs[line.index + 1]
              IN /\ \A l \in 1..(k - 1) : thrown.errors[l].index < line.index
                 /\ line.modelId = config.modelConfig.modelId
                 /\ line.text = "does not support endpoint type" =>
                      /\ line.endpointType = config.endpointType
                      /\ line.supported = config.modelConfig.supportedEndpoints

\* C8: if any entry of the list is invalid, the constructor ends at
\* validation with an error and has created no construct, no fetcher tuple
\* list and no widget.
NoOutputBeforeValidation ==
  (Violating # {} \/ AbsentModel # {}) =>
    /\ pc \in {"validate", "aborted"}
    /\ pc = "aborted" => thrown.type # "none"
    /\ constructs = <<>>
    /\ eventBridgeModels = <<>>
    /\ customResourceModels = <<>>
    /\ widgets = <<>>

\* the constructor aborted on a list whose first entry is valid and whose
\* later entry is not
NoOutputBeforeValidationWitness ==
  /\ pc = "aborted"
  /\ Len(configs) >= 2
  /\ 1 \notin Violating /\ 1 \notin AbsentModel
  /\ Violating # {}
  /\ constructs = <<>> /\ widgets = <<>>

\* C9: an entry whose descriptor is absent from the active table, or has an
\* empty supported-endpoint list, is reported in the one aggregated Error,
\* with a line of its own beside the lines of the other invalid entries.
AbsentModelInAggregatedError ==
  (pc # "validate" /\
     \E i \in 1..Len(configs) :
        \/ configs[i].modelConfig.tag = "undefined"
        \/ Len(configs[i].modelConfig.supportedEndpoints) = 0) =>
    /\ thrown.type = "Error"
    /\ \A i \in AbsentModel \cup Violating :
         \E k \in 1..Len(thrown.errors) : thrown.errors[k].index + 1 = i

\* the (limit kind, ModelId) series a fetcher tuple is published to
SeriesOfTuple(tuple) ==
  (IF TruthyStr(tuple.tokenQuotaCode) THEN {<<"TokenQuota", tuple.modelId>>} ELSE {})
  \cup (IF TruthyStr(tuple.requestQuotaCode) THEN {<<"RequestQuota", tuple.modelId>>} ELSE {})

\* no two tuples of a list write to the same series
DistinctSeries(tuples) ==
  \A i, j \in 1..Len(tuples) :
    i # j => SeriesOfTuple(tuples[i]) \cap SeriesOfTuple(tuples[j]) = {}

\* C15: for the entry list the constructor declares, no two tuples handed to
\* the fetcher (by the schedule rule or by the initial fetch) share a full
\* model id for the same limit kind.
FetcherTuplesWriteDistinctSeries ==
  configs = allDashboardConfigs =>
    DistinctSeries(eventBridgeModels) /\ DistinctSeries(customResourceModels)

\* C16: once both triggers are configured, the tuple list of the schedule
\* rule's target and the tuple list of the initial-fetch resource are the same
\* list: same tuples, same order.
TriggersGetSameTuples ==
  pc \in {"widgets", "done"} => eventBridgeModels = customResourceModels

\* a finished build whose list kept some entries, one of them with a request
\* code only, and dropped one that has no pair
TriggersGetSameTuplesWitness ==
  /\ pc = "done"
  /\ Len(customResourceModels) >= 2
  /\ Len(customResourceModels) < Len(configs)
  /\ \E i \in 1..Len(customResourceModels) :
       ~TruthyStr(customResourceModels[i].tokenQuotaCode)
  /\ \E i \in 1..Len(customResourceModels) :
       StartsWith(customResourceModels[i].modelId, "us.")

----------------------------------------------------------------------------
(* Trigger properties *)

\* the positions of the invocations the schedule rule made
Scheduled == {i \in 1..Len(invocations) : invocations[i].event.source = "aws.events"}

----------------------------------------------------------------------------
(* Fetcher properties *)

\* the last answer a query got in this refresh
LastAnswer(q) == asked[q][Len(asked[q])]

\* C18: when a refresh is over, every query of its batch was sent; each one
\* the limits service answered has its limit point in the store, under its
\* limit kind and model identity and with the value queried, and is not
\* reported; each one that failed is reported and only those are, whatever
\* tuple failed and in whatever order the answers came.
FetcherIsolation ==
  (fetcher.phase = "idle" /\ fetcher.source # "none") =>
    /\ \A q \in Queries(fetcher.models) :
         /\ Len(asked[q]) >= 1
         /\ LastAnswer(q) = "ok" =>
              /\ q \in fetcher.publishedNow /\ q \notin fetcher.loggedNow
              /\ LimitPoint(fetcher.models, q,
                            ServiceQuotaValue(CodeOf(fetcher.models, q))) \in points
         /\ LastAnswer(q) # "ok" =>
              q \in fetcher.loggedNow /\ q \notin fetcher.publishedNow
    /\ fetcher.loggedNow \cup fetcher.publishedNow = Queries(fetcher.models)

\* a refresh over three tuples ended with the second tuple's query reported
\* and the points of the first and the third published
FetcherIsolationWitness ==
  /\ fetcher.phase = "idle"
  /\ Len(fetcher.models) = 3
  /\ fetcher.loggedNow = {<<2, "RequestQuota">>}
  /\ fetcher.publishedNow =
       {<<1, "TokenQuota">>, <<1, "RequestQuota">>, <<3, "TokenQuota">>, <<3, "RequestQuota">>}
  /\ Cardinality(points) = 4

\* C19: no query is sent twice in one refresh; and a query reported as failed
\* whose identifier the limits service answers again gets its point published
\* by a later refresh, unless the service fails for it once more.
NoRetrySelfHeals ==
  /\ [](\A q \in DOMAIN asked : Len(asked[q]) <= 1)
  /\ \A q \in Queries(ScheduledTuples) :
       (q \in fetcher.loggedNow /\ CodeOf(ScheduledTuples, q) \notin outage)
         ~> (q \in fetcher.publishedNow \/ CodeOf(ScheduledTuples, q) \in outage)

\* a query reported by an earlier refresh has its point published by a
\* scheduled one, the service answering for every identifier
NoRetrySelfHealsWitness ==
  /\ fetcher.source = "aws.events"
  /\ outage = {}
  /\ \E q \in log :
       /\ q \in fetcher.publishedNow
       /\ LimitPoint(fetcher.models, q,
                     ServiceQuotaValue(CodeOf(fetcher.models, q))) \in points

----------------------------------------------------------------------------
(* Listing properties *)

\* the quotas of the pages answered so far, page after page
RECURSIVE QuotasOfPages(_)
QuotasOfPages(responses) ==
  IF responses = <<>> THEN <<>>
  ELSE Head(responses).Quotas.items \o QuotasOfPages(Tail(responses))

\* the listing ends: following the tokens from the first page leads to a
\* page without one
RECURSIVE EndsFrom(_, _, _)
EndsFrom(listing, k, steps) ==
  IF listing[k].NextToken = Undefined THEN TRUE
  ELSE IF steps = 0 THEN FALSE
  ELSE EndsFrom(listing, CHOOSE j \in 1..Len(listing) : Token(j) = listing[k].NextToken,
                steps - 1)

\* C20: the listing loop asks for the first page and then for the page each
\* response's token names; it goes on exactly while the last response carried
\* a token and is complete only on a response without one; its result is the
\* quotas of every page answered, in order; and it comes to an end whenever
\* the listing does.
PaginationDrained ==
  /\ [](received # <<>> => received[1] = pages[1])
  /\ [](\A i \in 1..(Len(received) - 1) :
          /\ received[i].NextToken # Undefined
          /\ received[i + 1] = ListServiceQuotas(pages, received[i].NextToken))
  /\ [](lpc = "listed" =>
          /\ received[Len(received)].NextToken = Undefined
          /\ allQuotas = QuotasOfPages(received))
  /\ []((lpc = "do" /\ received # <<>>) => received[Len(received)].NextToken # Undefined)
  /\ EndsFrom(pages, 1, Len(pages)) ~> lpc \in {"listed", "caught"}

\* a listing of several pages drained: the first page without a Quotas
\* field, the quotas of the last page in the result
PaginationDrainedWitness ==
  /\ lpc = "listed"
  /\ Len(received) = Len(pages)
  /\ Len(received) >= 2
  /\ ~received[1].Quotas.present
  /\ allQuotas = received[Len(received)].Quotas.items
  /\ Len(allQuotas) = 1

----------------------------------------------------------------------------
(* Layout properties *)

\* the family of an entry, as the loop derives it
FamilyOf(config) == getModelFamily(config.modelConfig.modelId)

\* the entries the loop has passed and rendered (it found their pair)
RenderedSoFar ==
  {i \in 1..(idx - 1) :
     getQuotaCodes(configs[i].modelConfig, configs[i].endpointType).tag = "object"}

IsBanner(row) == Len(row) = 1 /\ row[1].kind = "TextWidget"

\* the positions of the graph rows on the dashboard
RowPositions == {p \in 1..Len(widgets) : ~IsBanner(widgets[p])}

\* the k-th smallest member of a set of numbers
Nth(S, k) == CHOOSE x \in S : Cardinality({y \in S : y < x}) = k - 1

\* the dashboard holds the rows of the rendered entries in list order, a
\* banner of the entry's family stands immediately before a row exactly when
\* the entry is the first one or its family differs from that of the entry
\* before it, and no banner stands anywhere else. "The entry before it" is
\* the previous entry of the list when literal, the previous rendered entry
\* otherwise.
BannersPlaced(literal) ==
  LET R == RenderedSoFar
      Before(k) == IF literal THEN Nth(R, k) - 1 ELSE Nth(R, k - 1)
      IsFirst(k) == IF literal THEN Nth(R, k) = 1 ELSE k = 1
  IN /\ Cardinality(RowPositions) = Cardinality(R)
     /\ \A k \in 1..Cardinality(R) :
          LET i == Nth(R, k)
              p == Nth(RowPositions, k)
              banner == p > 1 /\ IsBanner(widgets[p - 1])
          IN /\ widgets[p] = GraphRow(configs[i])
             /\ banner <=> (IsFirst(k) \/ FamilyOf(configs[i]) # FamilyOf(configs[Before(k)]))
             /\ banner => widgets[p - 1] = <<TextWidget(FamilyOf(configs[i]))>>
     /\ \A p \in 1..Len(widgets) :
          IsBanner(widgets[p]) => p < Len(widgets) /\ ~IsBanner(widgets[p + 1])

----------------------------------------------------------------------------
(* Limit line properties *)

\* the two limit lines of the entry's row
LimitLines == {panel[1].left[2], panel[3].left[2]}

\* the series a limit line reads
LineSeries(line) ==
  SeriesOf(line.usingMetrics[CHOOSE k \in DOMAIN line.usingMetrics : TRUE])

\* the buckets up to b that hold a limit point of the series
ReadingBuckets(series, b) == {c \in 1..b : store[series][c].n > 0}

\* the limit points of the bucket all carry one value (one refresh a bucket,
\* or the same value published again)
OneValue(agg) == agg.n > 0 /\ agg.sum = agg.n * agg.max

\* a limit line shows, in every bucket at or after a reading, the value of
\* the most recent reading
ForwardFilled ==
  \A line \in LimitLines, b \in 1..MaxLimitBucket :
    LET have == ReadingBuckets(LineSeries(line), b)
    IN have # {} =>
         LET agg == store[LineSeries(line)][CHOOSE c \in have : \A d \in have : d <= c]
         IN OneValue(agg) => SeriesValue(line, store, b) = Point(agg.sum \div agg.n)

\* a step that publishes, to the series of a limit line, the value the line
\* shows in the current bucket leaves the line as it was in every bucket
RepublishChangesNothing ==
  \A line \in LimitLines :
    LET series == LineSeries(line)
        value == store'[series][now].sum - store[series][now].sum
    IN (/\ store'[series][now].n = store[series][now].n + 1
        /\ SeriesValue(line, store, now) = Point(value)) =>
         \A b \in 1..MaxLimitBucket :
           SeriesValue(line, store', b) = SeriesValue(line, store, b)

\* C22: the rendered limit line is the forward fill of the last-known limit
\* reading: every bucket at or after a reading shows the most recent
\* reading's value; and publishing the value the line shows once more, in the
\* same or a later bucket, changes the line in no bucket.
LimitLineForwardFilledIdempotent ==
  /\ []ForwardFilled
  /\ [][RepublishChangesNothing]_vars

\* the request limit published twice in the first bucket with one value, no
\* point in the second bucket, another value in the third
LimitLineForwardFilledIdempotentWitness ==
  /\ now = 3
  /\ \E line \in LimitLines :
       LET series == LineSeries(line)
       IN /\ store[series][1].n = 2 /\ OneValue(store[series][1])
          /\ store[series][2].n = 0
          /\ store[series][3].n = 1
          /\ store[series][3].max # store[series][1].max
          /\ SeriesValue(line, store, 2) = Point(store[series][1].max)

----------------------------------------------------------------------------
(* Panel properties *)

\* the graphs of a dashboard row that carry the limit line of a kind
PanelsOf(row, metricName) ==
  {g \in 1..Len(row) :
     \E j \in 1..Len(row[g].left) :
        /\ row[g].left[j].tag = "MathExpression"
        /\ \E k \in DOMAIN row[g].left[j].usingMetrics :
             /\ row[g].left[j].usingMetrics[k].namespace = "Bedrock/Quotas"
             /\ row[g].left[j].usingMetrics[k].metricName = metricName}

\* C23: an entry whose pair lacks the token identifier gets no token-quota
\* panel, an entry whose pair lacks the request identifier gets no
\* request-quota panel, and the panels of the other half are rendered.
AffectedHalfOmitted ==
  pc \in {"widgets", "done"} =>
    \A k \in 1..Cardinality(RenderedSoFar) :
      LET config == configs[Nth(RenderedSoFar, k)]
          row == widgets[Nth(RowPositions, k)]
          quotaCodes == getQuotaCodes(config.modelConfig, config.endpointType)
      IN /\ PanelsOf(row, "TokenQuota") # {} <=> TruthyStr(quotaCodes.tokenQuotaCode)
         /\ PanelsOf(row, "RequestQuota") # {} <=> TruthyStr(quotaCodes.requestQuotaCode)

----------------------------------------------------------------------------
(* Model identity properties *)

\* the identity string the three endpoint kinds give a registry model id
IdentityOf(modelId, endpointType) ==
  IF endpointType = "regional" THEN modelId
  ELSE IF endpointType = "cross-region" THEN "us." \o modelId
  ELSE "global." \o modelId

\* the metrics of the primary identity a consumption series reads
PrimaryMetrics(series) ==
  IF series.tag = "Metric" THEN {series}
  ELSE {series.usingMetrics[k] : k \in MetricFields \cap DOMAIN series.usingMetrics}

\* C24: for every rendered entry the identity string is the bare modelId for
\* regional, 'us.' + modelId for cross-region and 'global.' + modelId for
\* global-cross-region, and that one string is the modelId of its tuple in
\* both fetcher lists, the ModelId of its two limit series and the ModelId of
\* its primary usage counters.
OneIdentityPerEntry ==
  pc = "done" =>
    \A k \in 1..Cardinality(RenderedSoFar) :
      LET config == configs[Nth(RenderedSoFar, k)]
          row == widgets[Nth(RowPositions, k)]
          identity == IdentityOf(config.modelConfig.modelId, config.endpointType)
      IN /\ eventBridgeModels[k].modelId = identity
         /\ customResourceModels[k].modelId = identity
         /\ \A g \in 1..Len(row) :
              /\ \A m \in PrimaryMetrics(row[g].left[1]) : m.ModelId = identity
              /\ \A key \in DOMAIN row[g].left[2].usingMetrics :
                   row[g].left[2].usingMetrics[key].ModelId = identity

\* a finished dashboard with a regional, a cross-region and a
\* global-cross-region entry rendered, one of them aggregated
OneIdentityPerEntryWitness ==
  /\ pc = "done"
  /\ Cardinality(RenderedSoFar) = 3
  /\ {configs[i].endpointType : i \in RenderedSoFar} = EndpointTypes
  /\ \E i \in RenderedSoFar : hasApplicationProfiles(configs[i])

----------------------------------------------------------------------------
(* Family properties *)

\* the if-chain from rule i on: the label of the first rule whose prefix the
\* id starts with, 'Other Models' past the last rule
RECURSIVE FirstRuleFrom(_, _)
FirstRuleFrom(modelId, i) ==
  IF i > Len(FamilyRules) THEN "Other Models"
  ELSE IF StartsWith(modelId, FamilyRules[i][1]) THEN FamilyRules[i][2]
  ELSE FirstRuleFrom(modelId, i + 1)

\* the model ids of the region tables and of the descriptors outside them
KnownModelIds == {m.modelId : m \in RegionTableModels \cup FixtureModels}

\* C25: getModelFamily returns, for every model id, the label of the first
\* rule in declared order whose prefix the id starts with, and 'Other Models'
\* exactly when no rule matches; the family the widget loop tracks and puts
\* on a banner is that of the entry's registry modelId, whatever the endpoint
\* kind.
FamilyIsFirstPrefixMatch ==
  /\ \A modelId \in KnownModelIds :
       /\ getModelFamily(modelId) = FirstRuleFrom(modelId, 1)
       /\ getModelFamily(modelId) = "Other Models" <=>
            \A i \in 1..Len(FamilyRules) : ~StartsWith(modelId, FamilyRules[i][1])
  /\ pc \in {"widgets", "done"} =>
       /\ RenderedSoFar # {} =>
            currentFamily =
              FirstRuleFrom(configs[Nth(RenderedSoFar, Cardinality(RenderedSoFar))].modelConfig.modelId, 1)
       /\ \A k \in 1..Cardinality(RenderedSoFar) :
            LET p == Nth(RowPositions, k)
                modelId == configs[Nth(RenderedSoFar, k)].modelConfig.modelId
            IN (p > 1 /\ IsBanner(widgets[p - 1])) =>
                 widgets[p - 1][1].markdown = "# " \o FirstRuleFrom(modelId, 1)

\* a finished dashboard whose cross-region and global entries stand under
\* the banners of two families
FamilyIsFirstPrefixMatchWitness ==
  /\ pc = "done"
  /\ \E i, j \in RenderedSoFar :
       /\ configs[i].endpointType = "cross-region"
       /\ configs[j].endpointType = "global-cross-region"
       /\ FirstRuleFrom(configs[i].modelConfig.modelId, 1) = "Amazon Nova"
       /\ FirstRuleFrom(configs[j].modelConfig.modelId, 1) = "Anthropic Claude"
  /\ currentFamily \in {"Amazon Nova", "Anthropic Claude"}
  /\ Cardinality({p \in 1..Len(widgets) : IsBanner(widgets[p])}) >= 2

----------------------------------------------------------------------------
(* Descriptor properties *)

\* C26: every descriptor of a region table has a burndown rate of 1 or 5 and
\* a non-empty supported-endpoint list drawn from regional, cross-region and
\* global-cross-region; getSupportedEndpointTypes returns that list, in its
\* declared order.
DescriptorsWellFormed ==
  /\ \A m \in RegionTableModels :
       /\ m.outputTokenBurndownRate \in {1, 5}
       /\ Len(m.supportedEndpoints) > 0
       /\ Range(m.supportedEndpoints) \subseteq EndpointTypes
  /\ (probe.model \in RegionTableModels /\ probe.supported # <<>>) =>
       /\ Len(probe.supported[1]) = Len(probe.model.supportedEndpoints)
       /\ \A i \in 1..Len(probe.supported[1]) :
            probe.supported[1][i] = probe.model.supportedEndpoints[i]

\* getSupportedEndpointTypes has returned the list of a rate-5 descriptor
\* that supports several endpoint kinds
DescriptorsWellFormedWitness ==
  /\ probe.model \in RegionTableModels
  /\ probe.model.outputTokenBurndownRate = 5
  /\ probe.supported # <<>>
  /\ Len(probe.supported[1]) >= 2
  /\ probe.supported[1][1] # probe.supported[1][2]

----------------------------------------------------------------------------
(* Skipped entries *)

\* the entries of the list for which getQuotaCodes returns null
WithoutPairIndices ==
  {i \in 1..Len(configs) :
     getQuotaCodes(configs[i].modelConfig, configs[i].endpointType).tag # "object"}

\* the tuple a fetcher list holds for an entry
TupleOf(config) ==
  LET quotaCodes == getQuotaCodes(config.modelConfig, config.endpointType)
  IN [modelId |-> IdentityOf(config.modelConfig.modelId, config.endpointType),
      tokenQuotaCode |-> quotaCodes.tokenQuotaCode,
      requestQuotaCode |-> quotaCodes.requestQuotaCode]

\* C27: in a finished build the scheduled tuple list, the initial-fetch
\* tuple list and the dashboard rows stand for one and the same set of
\* entries, those for which getQuotaCodes returns a pair, in list order; each
\* other entry is recorded once in the skipped list; and the created count is
\* configured minus skipped, the number of entries rendered.
SkippedConsistently ==
  pc = "done" =>
    LET kept == (1..Len(configs)) \ WithoutPairIndices
    IN /\ Len(eventBridgeModels) = Cardinality(kept)
       /\ Len(customResourceModels) = Cardinality(kept)
       /\ Cardinality(RowPositions) = Cardinality(kept)
       /\ \A k \in 1..Cardinality(kept) :
            /\ eventBridgeModels[k] = TupleOf(configs[Nth(kept, k)])
            /\ customResourceModels[k] = TupleOf(configs[Nth(kept, k)])
            /\ widgets[Nth(RowPositions, k)] = GraphRow(configs[Nth(kept, k)])
       /\ Len(modelsWithMissingQuotas) = Cardinality(WithoutPairIndices)
       /\ \A k \in 1..Cardinality(WithoutPairIndices) :
            LET config == configs[Nth(WithoutPairIndices, k)]
            IN modelsWithMissingQuotas[k] =
                 config.modelConfig.modelId \o " (" \o config.endpointType \o ")"
       /\ totalCreated = Cardinality(kept)
       /\ totalCreated + totalSkipped = totalConfigured

\* a finished build of three entries whose second entry has no pair
SkippedConsistentlyWitness ==
  /\ pc = "done"
  /\ Len(configs) = 3
  /\ WithoutPairIndices = {2}
  /\ Len(eventBridgeModels) = 2
  /\ totalSkipped = 1 /\ totalCreated = 2

\* the banners standing before position p of the dashboard
BannersBefore(p) == {q \in 1..(p - 1) : IsBanner(widgets[q])}

\* every row has a banner before it, and the nearest one is of the family
\* of the row's entry; every banner is followed by a row of its family
RowsUnderOwnBanner ==
  pc \in {"widgets", "done"} =>
    /\ \A k \in 1..Cardinality(RenderedSoFar) :
         LET p == Nth(RowPositions, k)
             family == FamilyOf(configs[Nth(RenderedSoFar, k)])
         IN /\ BannersBefore(p) # {}
            /\ widgets[CHOOSE q \in BannersBefore(p) : \A r \in BannersBefore(p) : r <= q]
                 = <<TextWidget(family)>>
    /\ \A q \in 1..Len(widgets) :
         IsBanner(widgets[q]) =>
           \E k \in 1..Cardinality(RenderedSoFar) :
              /\ Nth(RowPositions, k) = q + 1
              /\ widgets[q] = <<TextWidget(FamilyOf(configs[Nth(RenderedSoFar, k)]))>>

\* the iteration over an entry without a pair adds nothing to the dashboard
\* and leaves the tracked family as it was
SkipLeavesLayout ==
  (/\ pc = "widgets"
   /\ idx' = idx + 1
   /\ getQuotaCodes(configs[idx].modelConfig, configs[idx].endpointType).tag # "object") =>
     /\ widgets' = widgets
     /\ currentFamily' = currentFamily

\* C28: a skipped entry emits no banner and does not change the tracked
\* family; so every rendered row is preceded by a banner of its own family
\* with no banner of another family in between, and no banner is emitted for
\* a family without a rendered entry.
SkippedEntryLeavesBanners ==
  /\ []RowsUnderOwnBanner
  /\ [][SkipLeavesLayout]_vars

\* a finished dashboard: a rendered entry, a skipped entry of another
\* family, and a rendered entry of the first family under the one banner
SkippedEntryLeavesBannersWitness ==
  /\ pc = "done"
  /\ Len(configs) = 3
  /\ WithoutPairIndices = {2}
  /\ FamilyOf(configs[1]) = FamilyOf(configs[3])
  /\ FamilyOf(configs[2]) # FamilyOf(configs[1])
  /\ Cardinality({p \in 1..Len(widgets) : IsBanner(widgets[p])}) = 1
  /\ Len(widgets) = 3

----------------------------------------------------------------------------
(* Aggregation properties *)

\* the variable name of a metric of the i-th identity (the primary is the
\* first): no suffix for the primary, _k for the k-th auxiliary
VariableName(base, i) == IF i = 1 THEN base ELSE base \o "_" \o ToString(i - 1)

\* the CloudWatch metric each of the five variables stands for
MetricNameOf(base) ==
  CASE base = "inputTokens" -> "InputTokenCount"
    [] base = "cacheWriteTokens" -> "CacheWriteInputTokenCount"
    [] base = "outputTokens" -> "OutputTokenCount"
    [] base = "maxTokens" -> "MaxTokens"
    [] base = "invocations" -> "Invocations"

\* the five sums of the aggregated series, as the expressions hold them
SumsOf(series) ==
  [inputTokens |-> series.actualConsumption.expression.args[1],
   cacheWriteTokens |-> series.actualConsumption.expression.args[2],
   outputTokens |-> series.actualConsumption.expression.args[3].args[1],
   maxTokens |-> series.initialReservation.expression.args[3],
   invocations |-> series.totalInvocations.expression]

\* C29: in the aggregated path, whatever the list of auxiliary ids (repeated
\* ids included), the 5 * (N + 1) variable names are pairwise distinct, each
\* name stands for the metric of its own identity, and each of the five sums
\* has exactly N + 1 terms, one per identity, the primary first and the
\* auxiliaries in list order.
AggregatedNamesDistinct ==
  (panel # <<>> /\ hasApplicationProfiles(entry)) =>
    LET N == Len(entry.applicationProfileIds)
        ids == <<getFullModelId(entry.modelConfig, entry.endpointType)>>
                 \o entry.applicationProfileIds
        names == {VariableName(base, i) : base \in MetricFields, i \in 1..(N + 1)}
    IN /\ Cardinality(names) = 5 * (N + 1)
       /\ \A series \in {panel.actualConsumption, panel.initialReservation,
                         panel.totalInvocations} :
            /\ DOMAIN series.usingMetrics = names
            /\ \A base \in MetricFields, i \in 1..(N + 1) :
                 /\ series.usingMetrics[VariableName(base, i)].ModelId = ids[i]
                 /\ series.usingMetrics[VariableName(base, i)].metricName = MetricNameOf(base)
       /\ \A base \in MetricFields :
            /\ SumsOf(panel)[base].op = "+"
            /\ Len(SumsOf(panel)[base].args) = N + 1
            /\ \A i \in 1..(N + 1) :
                 SumsOf(panel)[base].args[i] = Ref(VariableName(base, i))

\* the series built for an entry whose list names one profile twice and the
\* primary identity once
AggregatedNamesDistinctWitness ==
  /\ panel # <<>>
  /\ Len(entry.applicationProfileIds) = 3
  /\ entry.applicationProfileIds[1] = entry.applicationProfileIds[2]
  /\ entry.applicationProfileIds[3] = getFullModelId(entry.modelConfig, entry.endpointType)
  /\ Len(SumsOf(panel).invocations.args) = 4

\* C30: an entry without application profile ids (the list left out or
\* empty) takes the single-profile path, and its Initial Reservation, Actual
\* Consumption and Request Rate series (the Invocations of the primary) have,
\* in every bucket, the data point the aggregated formulas give for no
\* auxiliary identity.
SinglePathIsAggregatedAtZero ==
  entry.applicationProfileIds = <<>> =>
    /\ panel.actualConsumption.label = "Actual Consumption"
    /\ panel.initialReservation.label = "Initial Reservation"
    /\ panel.totalInvocations =
         Metric("AWS/Bedrock", "Invocations",
                getFullModelId(entry.modelConfig, entry.endpointType), "Sum", Minutes(1))
    /\ \A b \in Buckets :
         /\ SeriesValue(panel.actualConsumption, store, b)
              = SeriesValue(aggregatedActualConsumption(entry), store, b)
         /\ SeriesValue(panel.initialReservation, store, b)
              = SeriesValue(aggregatedInitialReservation(entry), store, b)
         /\ SeriesValue(panel.totalInvocations, store, b)
              = SeriesValue(aggregatedTotalInvocations(entry), store, b)

\* a rate-5 entry without profiles after traffic: a bucket whose Actual
\* Consumption and Request Rate have a data point while its Initial
\* Reservation has none, and a bucket with an Initial Reservation
SinglePathIsAggregatedAtZeroWitness ==
  /\ entry.applicationProfileIds = <<>>
  /\ entry.modelConfig.outputTokenBurndownRate = 5
  /\ \E b \in Buckets :
       /\ SeriesValue(panel.actualConsumption, store, b).present
       /\ SeriesValue(panel.totalInvocations, store, b).present
       /\ ~SeriesValue(panel.initialReservation, store, b).present
  /\ \E b \in Buckets : SeriesValue(panel.initialReservation, store, b).present

====
